---------------------------- MODULE Spec2Model ----------------------------
(***************************************************************************)
(* Translation of relationship filters and authorization rules of the     *)
(* GraphQL-to-Cypher engine, with the semantics of the Cypher predicates  *)
(* it emits, over a small fixture graph                                   *)
(*   (:Actor)-[:ACTED_IN {screenTime}]->(:Movie|:Series {title}).         *)
(***************************************************************************)
EXTENDS Integers, Sequences, FiniteSets, TLC

(***************************************************************************)
(* Bounds of the fixture graph.                                            *)
(***************************************************************************)
MaxEdges == 3

MaxRecords == 2

MaxDepth == 2

MaxCallers == 3

MaxItems == 2

MaxHelpers == 2

(***************************************************************************)
(* The fixture schema: union Production = Movie | Series, related to an   *)
(* Actor through ACTED_IN with the edge property screenTime.               *)
(***************************************************************************)
ProductionTypes == <<"Movie", "Series">>

TypeNames == {ProductionTypes[i] : i \in 1..Len(ProductionTypes)}

\* a variant that takes the name of the type for its label
getLabelsOfName(typeName) == typeName

\* Node.getLabels: type Movie @node(labels: ["Film"]) is stored under its
\* custom label, Series under its type name
getLabels(typeName) == IF typeName = "Movie" THEN "Film" ELSE typeName

Labels == {getLabels(t) : t \in TypeNames}

Titles == {"T1", "T2"}

ScreenTimes == {10, 20}

Parents == {"a", "a2"}

Twins == {"x", "y"}

ChildNodes == [label : Labels, title : Titles, id : Twins]

EdgeUniverse == [from : Parents, to : ChildNodes, screenTime : ScreenTimes]

VARIABLES
    edges,      \* the relationships of the database fixture
    pc,         \* "seed": the fixture is being created; "done": a query ran
    request,    \* the where argument of the query that ran
    cypher,     \* the predicate the translation put in the root WHERE
    data        \* the parents the query returned

filterVars == <<edges, pc, request, cypher, data>>

VARIABLES
    authorization,  \* the @authorization directive of the related type
    records,        \* the related nodes of the parent being read
    authPc,         \* "seed": records are being created; "done": a read ran
    authRequest,    \* the token and the connection where of the read
    subquery,       \* the edge sub-query the translation built
    response        \* what the read gave back: errors and records

authVars == <<authorization, records, authPc, authRequest, subquery, response>>

VARIABLES
    typeDefs,       \* where the schema declares @authentication, and for what
    contextValue,   \* the context value of the request: its bearer token
    rootField,      \* the root field the request selected, Null before it
    gqlResult       \* the result of the request: data and errors

authnVars == <<typeDefs, contextValue, rootField, gqlResult>>

VARIABLES
    populatedBy,    \* the @populatedBy directive of the callback field
    entities,       \* the stored nodes or relationships of the annotated type
    counter,        \* how many times the callback has been invoked
    results         \* what each operation of the mutation document returned

populateVars == <<populatedBy, entities, counter, results>>

VARIABLES
    translations    \* what translateQuery gave for each request so far

translateVars == <<translations>>

VARIABLES
    selection,      \* the fields a read query selected, NoSelection before it
    aggregate,      \* for each parent, the result of its aggregate field
    projected       \* for each parent, the projected field of its related nodes

aggregateVars == <<selection, aggregate, projected>>

VARIABLES
    whereArgument,  \* the where argument being compiled, and the type it filters
    whereCalls,     \* the calls of createWherePredicate that are yet to run
    compilePc       \* "idle", "compiling" or "done"

compileVars == <<whereArgument, whereCalls, compilePc>>

VARIABLES
    instance,           \* the fields of one Neo4jGraphQL instance
    callers,            \* each call made on the instance: where it stands
    engineInits,        \* how many times the subscriptions engine's init ran
    modelsBuilt,        \* how many times generateModel ran
    schemasGenerated,   \* how many times each schema generation was started
    dbQueries           \* how many times the database was queried

instanceVars ==
    <<instance, callers, engineInits, modelsBuilt, schemasGenerated, dbQueries>>

VARIABLES
    connectOrCreate,    \* the arguments of createConnectOrCreateAndParams
    connected           \* what it returned: the query and the parameters

connectVars == <<connectOrCreate, connected>>

VARIABLES
    helperLock,     \* let helperLock of the tests-helper module
    helpers,        \* the TestHelper objects: their fields and their call
    strayClose      \* history: close got past the lock on a helper not open

helperVars == <<helperLock, helpers, strayClose>>

moreVars == <<compileVars, instanceVars, connectVars, helperVars>>

vars == <<edges, pc, request, cypher, data,
          authorization, records, authPc, authRequest, subquery, response,
          typeDefs, contextValue, rootField, gqlResult,
          populatedBy, entities, counter, results,
          translations,
          selection, aggregate, projected,
          whereArgument, whereCalls, compilePc,
          instance, callers, engineInits, modelsBuilt, schemasGenerated, dbQueries,
          connectOrCreate, connected,
          helperLock, helpers, strayClose>>

(***************************************************************************)
(* Cypher predicates, as the builder's expression tree.                    *)
(***************************************************************************)
Undefined == [op |-> "undefined"]

IsDefined(p) == p.op # "undefined"

Eq(on, prop, value) == [op |-> "eq", on |-> on, prop |-> prop, value |-> value]

Not(p) == [op |-> "NOT", arg |-> p]

\* Cypher.and / Cypher.or drop undefined operands; one operand is returned as is
Defined(ps) == SelectSeq(ps, IsDefined)

And(ps) ==
    IF Len(Defined(ps)) = 0 THEN Undefined
    ELSE IF Len(Defined(ps)) = 1 THEN Defined(ps)[1]
    ELSE [op |-> "AND", args |-> Defined(ps)]

Or(ps) ==
    IF Len(Defined(ps)) = 0 THEN Undefined
    ELSE IF Len(Defined(ps)) = 1 THEN Defined(ps)[1]
    ELSE [op |-> "OR", args |-> Defined(ps)]

Match(pattern, where) == [pattern |-> pattern, where |-> where]

Exists(match) == [op |-> "EXISTS", match |-> match]

PatternComprehension(pattern, map, where) ==
    [pattern |-> pattern, where |-> where, map |-> map]

Single(comprehension, where) ==
    [op |-> "single", where |-> where, list |-> comprehension]

SizeEq(comprehension, n) == [op |-> "sizeEq", list |-> comprehension, n |-> n]

Literal(value) == [op |-> "literal", value |-> value]

\* $param IN $jwt.<claim>
In(value, list) == [op |-> "in", value |-> value, list |-> list]

\* apoc.util.validatePredicate(predicate, message, [0])
ValidatePredicate(predicate, message) ==
    [op |-> "validatePredicate", arg |-> predicate, message |-> message]

(***************************************************************************)
(* What the emitted predicates mean on the fixture.  A row of a MATCH is   *)
(* one relationship of the parent whose other end carries the pattern's    *)
(* label; an inner predicate reads the child node or the relationship.     *)
(***************************************************************************)
Rows(pattern, this) ==
    {e \in edges :
        /\ pattern.type = "ACTED_IN"
        /\ pattern.direction = "OUT"
        /\ e.from = this
        /\ e.to.label = pattern.label}

RelProperties(e) == [screenTime |-> e.screenTime]

\* a list element of [pattern | child] is the child alone: no relationship
UnboundRel == [x \in {} |-> 0]

RECURSIVE EvalRow(_, _, _)
EvalRow(p, child, rel) ==
    CASE p.op = "eq" ->
            IF p.on = "node"
            THEN child[p.prop] = p.value
            ELSE p.prop \in DOMAIN rel /\ rel[p.prop] = p.value
      [] p.op = "NOT" -> ~EvalRow(p.arg, child, rel)
      [] p.op = "AND" -> \A i \in 1..Len(p.args) : EvalRow(p.args[i], child, rel)
      [] p.op = "OR" -> \E i \in 1..Len(p.args) : EvalRow(p.args[i], child, rel)
      [] p.op = "literal" -> p.value
      [] p.op = "in" -> p.value \in p.list
      [] OTHER -> TRUE

MatchedRows(match, this) ==
    {e \in Rows(match.pattern, this) :
        IsDefined(match.where) => EvalRow(match.where, e.to, RelProperties(e))}

RECURSIVE Eval(_, _)
Eval(p, this) ==
    CASE p.op = "EXISTS" -> MatchedRows(p.match, this) # {}
      [] p.op = "NOT" -> ~Eval(p.arg, this)
      [] p.op = "AND" -> \A i \in 1..Len(p.args) : Eval(p.args[i], this)
      [] p.op = "OR" -> \E i \in 1..Len(p.args) : Eval(p.args[i], this)
      [] p.op = "single" ->
            Cardinality({e \in Rows(p.list.pattern, this) :
                            EvalRow(p.where, e.to, UnboundRel)}) = 1
      [] p.op = "sizeEq" ->
            Cardinality(MatchedRows(p.list, this)) = p.n
      [] OTHER -> TRUE

(***************************************************************************)
(* The where compiler.                                                     *)
(***************************************************************************)
\* the list predicate a filter key's operator suffix stands for
getListPredicate(operator) ==
    CASE operator = "ALL" -> "all"
      [] operator = "NOT" -> "not"
      [] operator = "NONE" -> "none"
      [] operator = "SINGLE" -> "single"
      [] OTHER -> "any"

\* the inner where: a set of at most one property condition; {} compiles to
\* no predicate
createWherePredicate(whereInput) ==
    IF whereInput = {} THEN Undefined
    ELSE LET c == CHOOSE c \in whereInput : TRUE
         IN  Eq(c.on, c.prop, c.value)

\* a variant of "some" that asks for exactly one matching element
someAsSingle(matchPattern, innerOperation) ==
    Single(PatternComprehension(matchPattern, "child", Undefined), innerOperation)

\* case "some" / default: EXISTS { MATCH pattern WHERE inner }
somePredicate(matchPattern, innerOperation) ==
    Exists(Match(matchPattern, innerOperation))

\* a variant of "all" without the test that an element exists
allWithoutExists(matchPattern, innerOperation) ==
    Not(Exists(Match(matchPattern, Not(innerOperation))))

\* a variant of "all" without the test that no element fails the filter
allOnlyExists(matchPattern, innerOperation) ==
    Exists(Match(matchPattern, innerOperation))

\* case "all": at least one element exists and no element not matching the
\* filter exists
allPredicate(matchPattern, innerOperation) ==
    LET matchClause == Match(matchPattern, innerOperation)
        notExistsMatchClause == Match(matchPattern, Not(innerOperation))
    IN  And(<<Exists(matchClause), Not(Exists(notExistsMatchClause))>>)

\* a variant of "none" that is the exact complement of "all" on non-empty
\* related sets
noneAsNotExistsNot(matchPattern, innerOperation) ==
    Not(Exists(Match(matchPattern, Not(innerOperation))))

\* a variant of "none" without the negation
noneNotNegated(matchPattern, innerOperation) ==
    somePredicate(matchPattern, innerOperation)

nonePredicate(matchPattern, innerOperation) ==
    LET some == somePredicate(matchPattern, innerOperation)
    IN  IF IsDefined(some) THEN Not(some) ELSE Undefined

\* a variant of "single" that uses single() whatever the inner predicate reads
singleIgnoringEdgePredicate(matchPattern, innerOperation, edgePredicate) ==
    Single(PatternComprehension(matchPattern, "child", Undefined), innerOperation)

\* a variant of "single" whose size() form counts the whole pattern
singleSizeOfPattern(matchPattern, innerOperation, edgePredicate) ==
    IF edgePredicate
    THEN SizeEq(PatternComprehension(matchPattern, "1", Undefined), 1)
    ELSE Single(PatternComprehension(matchPattern, "child", Undefined), innerOperation)

\* case "single": size() when the inner predicate reads edge properties,
\* single() otherwise
singlePredicate(matchPattern, innerOperation, edgePredicate) ==
    IF edgePredicate
    THEN SizeEq(PatternComprehension(matchPattern, "1", innerOperation), 1)
    ELSE Single(PatternComprehension(matchPattern, "child", Undefined), innerOperation)

dispatchListPredicate(matchPattern, listPredicateStr, innerOperation, edgePredicate) ==
    CASE listPredicateStr = "all" -> allPredicate(matchPattern, innerOperation)
      [] listPredicateStr \in {"not", "none"} -> nonePredicate(matchPattern, innerOperation)
      [] listPredicateStr = "single" ->
            singlePredicate(matchPattern, innerOperation, edgePredicate)
      [] OTHER -> somePredicate(matchPattern, innerOperation)

\* a variant without the early return on an undefined inner predicate
subqueryWithoutEarlyReturn(matchPattern, listPredicateStr, innerOperation, edgePredicate) ==
    dispatchListPredicate(matchPattern, listPredicateStr, innerOperation, edgePredicate)

\* if (!innerOperation) return undefined, then the switch
createRelationshipSubqueryAndPredicate(matchPattern, listPredicateStr, innerOperation, edgePredicate) ==
    IF ~IsDefined(innerOperation) THEN Undefined
    ELSE dispatchListPredicate(matchPattern, listPredicateStr,
                               innerOperation, edgePredicate)

relationshipPattern(relationField, refNode) ==
    [label |-> getLabels(refNode),
     type |-> relationField.type,
     direction |-> relationField.direction]

\* a variant of the null check with the two outcomes of isNot exchanged
nullCheckSwapped(matchPattern, isNot) ==
    LET exists == Exists(Match(matchPattern, Undefined))
    IN  IF isNot THEN Not(exists) ELSE exists

\* value === null: checking for null is checking that no relationship exists
nullCheck(matchPattern, isNot) ==
    LET exists == Exists(Match(matchPattern, Undefined))
    IN  IF ~isNot THEN Not(exists) ELSE exists

\* a variant that keeps "any" on a field that is not a list
createRelationshipOperationOfList(relationField, refNode, operator, value, isNot) ==
    LET matchPattern == relationshipPattern(relationField, refNode)
    IN  IF value.isNull
        THEN nullCheck(matchPattern, isNot)
        ELSE createRelationshipSubqueryAndPredicate(
                matchPattern, getListPredicate(operator),
                createWherePredicate(value.where), FALSE)

createRelationshipOperation(relationField, refNode, operator, value, isNot) ==
    LET matchPattern == relationshipPattern(relationField, refNode)
    IN  IF value.isNull
        THEN nullCheck(matchPattern, isNot)
        ELSE LET any == getListPredicate(operator)
                 listPredicateStr ==
                    IF any = "any" /\ ~relationField.array THEN "single" ELSE any
                 innerOperation == createWherePredicate(value.where)
             IN  createRelationshipSubqueryAndPredicate(
                    matchPattern, listPredicateStr, innerOperation, FALSE)

\* a connection filter: the inner where may read the relationship, and then
\* the caller sets edgePredicate
createConnectionOperation(relationField, refNode, operator, whereInput, edgePredicate) ==
    createRelationshipSubqueryAndPredicate(
        relationshipPattern(relationField, refNode),
        getListPredicate(operator),
        createWherePredicate(whereInput),
        edgePredicate)

\* a filter on a union relationship names concrete types, each with its own
\* inner where: one branch per named type, in declaration order
unionBranches(relationField, operator, unionWhere) ==
    [i \in 1..Len(ProductionTypes) |->
        IF \E w \in unionWhere : w.type = ProductionTypes[i]
        THEN createRelationshipOperation(
                relationField, ProductionTypes[i], operator,
                [where |-> (CHOOSE w \in unionWhere : w.type = ProductionTypes[i]).where,
                 isNull |-> FALSE],
                FALSE)
        ELSE Undefined]

createUnionOperation(relationField, operator, unionWhere) ==
    IF getListPredicate(operator) = "any"
    THEN Or(unionBranches(relationField, operator, unionWhere))
    ELSE And(unionBranches(relationField, operator, unionWhere))

\* a filter on an interface relationship applies one inner where to every
\* implementing type
createInterfaceOperation(relationField, operator, whereInput) ==
    Or([i \in 1..Len(ProductionTypes) |->
        createRelationshipOperation(
            relationField, ProductionTypes[i], operator,
            [where |-> whereInput, isNull |-> FALSE], FALSE)])

(***************************************************************************)
(* The relationship fields of the parent type and the where arguments a    *)
(* query may carry.                                                        *)
(***************************************************************************)
moviesField ==
    [type |-> "ACTED_IN", direction |-> "OUT", array |-> TRUE, name |-> "movies"]

actedInField ==
    [type |-> "ACTED_IN", direction |-> "OUT", array |-> TRUE, name |-> "actedIn"]

\* a field of the same relationship declared as Movie, not [Movie!]!
movieField ==
    [type |-> "ACTED_IN", direction |-> "OUT", array |-> FALSE, name |-> "movie"]

Operators == {"", "SOME", "ALL", "NONE", "NOT", "SINGLE"}

NodeWheres == {{}} \cup {{[on |-> "node", prop |-> "title", value |-> t]} : t \in Titles}

EdgeWheres == {{[on |-> "edge", prop |-> "screenTime", value |-> s]} : s \in ScreenTimes}

UnionWheres ==
    {w \in SUBSET [where : NodeWheres \ {{}}, type : TypeNames] :
        /\ w # {}
        /\ \A x, y \in w : x.type = y.type => x = y}

Request(kind, operator, isNull, where, edgePredicate) ==
    [where |-> where, operator |-> operator, edgePredicate |-> edgePredicate,
     isNull |-> isNull, kind |-> kind]

NoRequest == Request("none", "", FALSE, {}, FALSE)

TranslateWhere(req) ==
    CASE req.kind = "relationship" ->
            createRelationshipOperation(
                moviesField, "Movie", req.operator,
                [where |-> req.where, isNull |-> req.isNull],
                req.operator = "NOT")
      [] req.kind = "connection" ->
            createConnectionOperation(
                moviesField, "Movie", req.operator, req.where, req.edgePredicate)
      [] req.kind = "toOne" ->
            createRelationshipOperation(
                movieField, "Movie", req.operator,
                [where |-> req.where, isNull |-> req.isNull],
                req.operator = "NOT")
      [] req.kind = "union" ->
            createUnionOperation(actedInField, req.operator, req.where)
      [] req.kind = "interface" ->
            createInterfaceOperation(actedInField, req.operator, req.where)
      [] OTHER -> Undefined

\* MATCH (this:Actor) WHERE <predicate> RETURN this
Execute(predicate) ==
    {this \in Parents : IsDefined(predicate) => Eval(predicate, this)}


(***************************************************************************)
(* Authorization.  The related type carries an @authorization directive   *)
(* with a list of filter rules and a list of validate rules; a read of    *)
(* the connection builds one edge sub-query over the parent's related     *)
(* nodes.                                                                  *)
(***************************************************************************)
AUTH_FORBIDDEN_ERROR == "Forbidden"

AUTH_UNAUTHENTICATED_ERROR == "Unauthenticated"

\* default operations of a filter rule and of a validate rule
FilterRuleOperations ==
    {"READ", "UPDATE", "DELETE", "CREATE_RELATIONSHIP", "DELETE_RELATIONSHIP"}

ValidateRuleOperations ==
    {"READ", "CREATE", "UPDATE", "DELETE", "CREATE_RELATIONSHIP", "DELETE_RELATIONSHIP"}

AuthorizationRule(operations, requireAuthentication, where) ==
    [where |-> where, operations |-> operations,
     requireAuthentication |-> requireAuthentication]

\* where: { node: { ownerId: "$jwt.id" } }
OwnerIsJwtId == [on |-> "node", prop |-> "ownerId", value |-> "$jwt.id"]

\* where: { jwt: { roles_INCLUDES: "overlord" } }
JwtIsOverlord == [on |-> "jwt", prop |-> "roles", value |-> "overlord"]

\* where: { node: { title: "T1" } }
TitleIsT1 == [on |-> "node", prop |-> "title", value |-> "T1"]

ValidateRules ==
    << AuthorizationRule({"READ"}, TRUE, OwnerIsJwtId),
       AuthorizationRule(ValidateRuleOperations, TRUE, JwtIsOverlord),
       AuthorizationRule({"CREATE"}, TRUE, OwnerIsJwtId) >>

FilterRules ==
    << AuthorizationRule(FilterRuleOperations, TRUE, OwnerIsJwtId),
       AuthorizationRule(FilterRuleOperations, FALSE, TitleIsT1),
       AuthorizationRule({"UPDATE"}, TRUE, JwtIsOverlord) >>

\* the rule lists a schema may declare: the rules above, in their order
RuleLists(rules) ==
    {LET IsChosen(r) == r \in chosen IN SelectSeq(rules, IsChosen) :
        chosen \in SUBSET {rules[i] : i \in 1..Len(rules)}}

Authorization(filter, validate) == [filter |-> filter, validate |-> validate]

NoAuthorization == Authorization(<<>>, <<>>)

UserIds == {"u1", "u2"}

Null == "null"

RecordNodes == [title : Titles, ownerId : UserIds]

Jwt(authenticated, id, roles) ==
    [id |-> id, authenticated |-> authenticated, roles |-> roles]

NoJwt == Jwt(FALSE, Null, {})

Jwts ==
    {NoJwt} \cup {Jwt(TRUE, id, roles) :
                    id \in UserIds \cup {Null}, roles \in {{}, {"overlord"}}}

AuthRequest(jwt, where) == [where |-> where, jwt |-> jwt]

NoAuthRequest == AuthRequest(NoJwt, {})

Response(errors, returned) == [data |-> returned, errors |-> errors]

Throw(message) == [op |-> "throw", message |-> message]

IsThrow(p) == p.op = "throw"

\* claim substitution: a $jwt path is replaced by the claim, null if absent
populateWhereParams(value, jwt) == IF value = "$jwt.id" THEN jwt.id ELSE value

\* the predicate of one rule's where condition
createAuthorizationWherePredicate(where, jwt) ==
    IF where.on = "node"
    THEN Eq("node", where.prop, populateWhereParams(where.value, jwt))
    ELSE In(where.value, jwt[where.prop])

MapRules(rules, jwt, Compile(_, _)) ==
    [i \in 1..Len(rules) |-> Compile(rules[i], jwt)]

filterRulePredicate(rule, jwt) ==
    IF rule.requireAuthentication /\ ~jwt.authenticated
    THEN Literal(FALSE)
    ELSE createAuthorizationWherePredicate(rule.where, jwt)

validateRulePredicate(rule, jwt) ==
    createAuthorizationWherePredicate(rule.where, jwt)

\* the rules of the directive combined for one operation: the filter rules
\* when called with where, the validate rules when called with allow
createAuthPredicates(operations, entity, jwt, kind) ==
    LET Applies(rule) == operations \in rule.operations
        filter == SelectSeq(entity.filter, Applies)
        validate == SelectSeq(entity.validate, Applies)
    IN  IF kind = "where"
        THEN Or(MapRules(filter, jwt, filterRulePredicate))
        ELSE IF \E i \in 1..Len(validate) :
                    validate[i].requireAuthentication /\ ~jwt.authenticated
             THEN Throw(AUTH_UNAUTHENTICATED_ERROR)
             ELSE And(MapRules(validate, jwt, validateRulePredicate))

\* a variant that asserts the allow predicate itself
validateWithoutNot(authAllowPredicate) ==
    ValidatePredicate(authAllowPredicate, AUTH_FORBIDDEN_ERROR)

\* apoc.util.validatePredicate(NOT allow, "Forbidden")
validateAllow(authAllowPredicate) ==
    ValidatePredicate(Not(authAllowPredicate), AUTH_FORBIDDEN_ERROR)

\* a variant that leaves the filter rules out of the WHERE
whereWithoutAuthPredicate(wherePredicate, authPredicate) ==
    <<wherePredicate>>

\* a variant that accepts a row on either predicate
whereOrAuthPredicate(wherePredicate, authPredicate) ==
    <<Or(<<wherePredicate, authPredicate>>)>>

\* matchClause.where(wherePredicate) and matchClause.where(authPredicate)
whereAndAuthPredicate(wherePredicate, authPredicate) ==
    <<wherePredicate, authPredicate>>

\* a variant that never adds the assertion
assertionDropped(authAllowPredicate) == <<>>

\* if (authAllowPredicate) matchClause.where(new ValidatePredicate(...))
assertionConjunct(authAllowPredicate) ==
    IF IsDefined(authAllowPredicate)
    THEN <<validateAllow(authAllowPredicate)>>
    ELSE <<>>

\* new NamedNode(`${parentNode}_${relatedNode.name}`, { labels })
relatedNodeRef(parentNode, relatedNode) == parentNode \o "_" \o relatedNode

\* RETURN { __resolveType: "Movie", __id: id(this_Movie), ... }
createEdgeProjection(relatedNode, relatedNodeVariableName) ==
    [resolveType |-> relatedNode, variable |-> relatedNodeVariableName]

createEdgeSubquery(field, relatedNode, entity, whereInput, jwt) ==
    LET relPattern == relationshipPattern(field, relatedNode)
        wherePredicate == createWherePredicate(whereInput)
        authPredicate == createAuthPredicates("READ", entity, jwt, "where")
        authAllowPredicate == createAuthPredicates("READ", entity, jwt, "allow")
    IN  IF IsThrow(authAllowPredicate)
        THEN authAllowPredicate
        ELSE [op |-> "MATCH",
              match |->
                Match(relPattern,
                      And(whereAndAuthPredicate(wherePredicate, authPredicate)
                          \o assertionConjunct(authAllowPredicate))),
              return |->
                createEdgeProjection(relatedNode, relatedNodeRef("this", relatedNode))]

\* the conjuncts of a WHERE
Conjuncts(where) ==
    IF ~IsDefined(where) THEN <<>>
    ELSE IF where.op = "AND" THEN where.args
    ELSE <<where>>

IsAssertion(p) == p.op = "validatePredicate"

Narrows(p) == ~IsAssertion(p)

\* the rows the narrowing conjuncts of the WHERE keep
KeptRows(where) ==
    {r \in records :
        \A i \in 1..Len(Conjuncts(where)) :
            Narrows(Conjuncts(where)[i]) =>
                EvalRow(Conjuncts(where)[i], r, UnboundRel)}

\* the rows on which an assertion of the WHERE raises, with its message
Raised(where, rows) ==
    {Conjuncts(where)[i].message : i \in
        {j \in 1..Len(Conjuncts(where)) :
            /\ IsAssertion(Conjuncts(where)[j])
            /\ \E r \in rows : EvalRow(Conjuncts(where)[j].arg, r, UnboundRel)}}

\* The database evaluates the conjuncts of a WHERE in an order of its own
\* choosing: a row the other conjuncts drop may or may not have reached
\* the assertion; a row they keep has.
Outcomes(clause) ==
    IF IsThrow(clause)
    THEN {Response(<<clause.message>>, {})}
    ELSE {IF Raised(clause.match.where, asserted) # {}
          THEN Response(<<CHOOSE m \in Raised(clause.match.where, asserted) : TRUE>>, {})
          ELSE Response(<<>>, KeptRows(clause.match.where)) :
            asserted \in
                {rows \in SUBSET records : KeptRows(clause.match.where) \subseteq rows}}

(***************************************************************************)
(* Authentication of root fields: the schema of issue 3746, whose Query    *)
(* field me and Mutation field updateMe have custom resolvers.             *)
(***************************************************************************)
\* features: { authorization: { key: secret } }
secret == "secret"

Secrets == {secret, "forged"}

\* createBearerToken(secret, { sub: userId })
createBearerToken(key, sub) == [key |-> key, sub |-> sub]

\* neo4j.getContextValues({}): a request without a token
NoToken == createBearerToken(Null, Null)

Tokens == {NoToken} \cup {createBearerToken(k, u) : k \in Secrets, u \in UserIds}

\* a variant that takes the claims of any token, without verifying it
decodeUnverified(token, key) ==
    IF token = NoToken THEN NoJwt ELSE Jwt(TRUE, token.sub, {})

\* the claims of a token whose signature verifies, no claims otherwise
decode(token, key) ==
    IF token.key = key THEN Jwt(TRUE, token.sub, {}) ELSE NoJwt

\* @authentication(operations: [...]) on a field, on its type or on the schema
Authentication(level, operations) == [operations |-> operations, level |-> level]

NoAuthentication == Authentication("none", {})

AuthenticationLevels == {"field", "type", "schema"}

AuthenticationTypeDefs ==
    {NoAuthentication} \cup
    {Authentication(l, {o}) : l \in AuthenticationLevels, o \in {"READ", "CREATE", "UPDATE"}}

RootFields == {"Query.me", "Mutation.updateMe"}

\* the operations a custom root field stands for
rootFieldOperations(field) ==
    IF field = "Query.me" THEN {"READ"} ELSE {"CREATE", "UPDATE"}

TYPE_ERROR == "Cannot read properties of undefined (reading 'sub')"

\* Query: { me: () => ({}) }, User: { customId: (_, __, ctx) => ctx.jwt.sub };
\* updateMe has no resolver and resolves to null
resolve(field, jwt) ==
    IF field = "Mutation.updateMe" THEN Response(<<>>, Null)
    ELSE IF jwt.authenticated THEN Response(<<>>, jwt.id)
    ELSE Response(<<TYPE_ERROR>>, Null)

\* the annotation names an operation of the field and the request has no claims
applyAuthentication(annotation, field, jwt) ==
    /\ annotation.operations \cap rootFieldOperations(field) # {}
    /\ ~jwt.authenticated

\* the wrapper composed around every Query and Mutation resolver
wrapQueryAndMutation(annotation, field, token) ==
    LET jwt == decode(token, secret)
    IN  IF applyAuthentication(annotation, field, jwt)
        THEN Response(<<AUTH_UNAUTHENTICATED_ERROR>>, Null)
        ELSE resolve(field, jwt)

(***************************************************************************)
(* @populatedBy: a field whose value a registered callback supplies when   *)
(* the record is written by one of the listed operations.                  *)
(***************************************************************************)
MaxOperations == 3

EntityIds == {"m1", "m2"}

string1 == "string1"

string2 == "string2"

\* CREATE (:Movie { id: $movieId, callback: $string1 })
seeded == "seeded"

\* what a callback gives when it returns undefined
NoValue == "undefined"

\* callback: String @populatedBy(operations: [...], callback: "callback"),
\* on a node type or on a @relationshipProperties type
PopulatedBy(entity, operations, name) ==
    [operations |-> operations, entity |-> entity, callback |-> name]

NoPopulatedBy == PopulatedBy("Movie", {}, "null")

PopulatedByDirectives ==
    {PopulatedBy(e, ops, c) : e \in {"Movie", "RelProperties"},
                              ops \in {{"CREATE"}, {"UPDATE"}, {"CREATE", "UPDATE"}},
                              c \in {"counter", "undefined", "null"}}

\* features.populatedBy.callbacks: () => undefined, () => null, and the one
\* that resolves string1 the first time it is called and string2 afterwards
callback(name, count) ==
    CASE name = "undefined" -> NoValue
      [] name = "null" -> Null
      [] OTHER -> IF count = 1 THEN string1 ELSE string2

Entity(id, title, value) == [title |-> title, id |-> id, callback |-> value]

Stored(id) == CHOOSE e \in entities : e.id = id

IsStored(id) == \E e \in entities : e.id = id

\* the input of a create: { id, title }
CreateInput(id, title) == [title |-> title, id |-> id]

CreateInputs == {CreateInput(id, t) : id \in EntityIds, t \in Titles}

\* a variant that invokes the callback whatever the operation
invokesAlways(directive, operation) == TRUE

\* the callback is invoked for the operations the directive lists
invokes(directive, operation) == operation \in directive.operations

\* a variant in which a callback without value clears the property
setParamClearing(props, value) == [props EXCEPT !.callback = IF value = NoValue THEN Null ELSE value]

\* the value the callback resolved to becomes the property; null removes
\* the property, no value leaves it as it is
setParam(props, value) ==
    IF value = NoValue THEN props ELSE [props EXCEPT !.callback = value]

\* the properties an operation writes, after its callback was invoked
addCallbackAndSetParam(directive, operation, count, props) ==
    IF invokes(directive, operation)
    THEN setParam(props, callback(directive.callback, count + 1))
    ELSE props

\* the number of invocations after an operation
countAfter(directive, operation, count) ==
    IF invokes(directive, operation) THEN count + 1 ELSE count

\* the selection { id callback } of an operation's result
OperationResult(operation, props) ==
    [id |-> props.id, callback |-> props.callback, operation |-> operation]

(***************************************************************************)
(* Rendering: build() walks the expression tree once, names every          *)
(* Cypher.Node and every Cypher.Param the first time it meets it, and      *)
(* gives the query text and the parameter map.  The text is kept as its    *)
(* pieces: plain text, and references to parameters.                       *)
(***************************************************************************)
MaxTranslations == 2

RECURSIVE Distinct(_)
Distinct(seq) ==
    IF seq = <<>> THEN <<>>
    ELSE LET rest == Distinct(SelectSeq(Tail(seq), LAMBDA x : x # Head(seq)))
         IN  <<Head(seq)>> \o rest

IndexOf(seq, x) == CHOOSE i \in DOMAIN seq : seq[i] = x

\* a variant that tells parameters apart by their value only
paramOfValue(node, value) == [value |-> value, node |-> ""]

\* new Cypher.Param(value): one object for each literal of the where input
\* that a call of createRelationshipOperation compiles; the call is known
\* by the child node it made
param(node, value) == [value |-> value, node |-> node]

\* the child nodes of the patterns of a predicate, in the order of the text
RECURSIVE Nodes(_)
RECURSIVE NodesOfAll(_)
Nodes(p) ==
    CASE p.op \in {"AND", "OR"} -> NodesOfAll(p.args)
      [] p.op = "NOT" -> Nodes(p.arg)
      [] p.op = "EXISTS" -> <<p.match.pattern.label>> \o Nodes(p.match.where)
      [] p.op = "single" -> <<p.list.pattern.label>> \o Nodes(p.where)
      [] p.op = "sizeEq" -> <<p.list.pattern.label>> \o Nodes(p.list.where)
      [] OTHER -> <<>>

NodesOfAll(args) ==
    IF args = <<>> THEN <<>> ELSE Nodes(Head(args)) \o NodesOfAll(Tail(args))

\* the parameters of a predicate, in the order of the text
RECURSIVE Params(_, _)
RECURSIVE ParamsOfAll(_, _)
Params(p, node) ==
    CASE p.op = "eq" -> <<param(node, p.value)>>
      [] p.op \in {"AND", "OR"} -> ParamsOfAll(p.args, node)
      [] p.op = "NOT" -> Params(p.arg, node)
      [] p.op = "EXISTS" -> Params(p.match.where, p.match.pattern.label)
      [] p.op = "single" -> Params(p.where, p.list.pattern.label)
      [] p.op = "sizeEq" -> Params(p.list.where, p.list.pattern.label)
      [] OTHER -> <<>>

ParamsOfAll(args, node) ==
    IF args = <<>> THEN <<>>
    ELSE Params(Head(args), node) \o ParamsOfAll(Tail(args), node)

\* the environment of one build: the names it has given
Environment(p) == [nodes |-> Distinct(Nodes(p)), params |-> Distinct(Params(p, ""))]

nodeName(env, node) == "this" \o ToString(IndexOf(env.nodes, node) - 1)

paramName(env, node, value) ==
    "param" \o ToString(IndexOf(env.params, param(node, value)) - 1)

text(string) == <<[kind |-> "text", text |-> string]>>

\* a variant that writes the value into the text
literalReference(name, value) == text(ToString(value))

\* $param0
paramReference(name, value) == <<[kind |-> "param", text |-> name]>>

\* (this)-[this0r:TYPE]->(this0:Label), or the same towards this
patternText(env, pattern) ==
    LET child == "(" \o nodeName(env, pattern.label) \o ":" \o pattern.label \o ")"
        rel == "[" \o nodeName(env, pattern.label) \o "r:" \o pattern.type \o "]"
    IN  IF pattern.direction = "IN"
        THEN text("(this)<-" \o rel \o "-" \o child)
        ELSE text("(this)-" \o rel \o "->" \o child)

RECURSIVE Render(_, _, _)
RECURSIVE RenderAll(_, _, _, _)
Render(env, p, node) ==
    CASE p.op = "eq" ->
            text(nodeName(env, node) \o (IF p.on = "edge" THEN "r." ELSE ".") \o p.prop \o " = ")
            \o paramReference(paramName(env, node, p.value), p.value)
      [] p.op \in {"AND", "OR"} ->
            text("(") \o RenderAll(env, p.args, node, " " \o p.op \o " ") \o text(")")
      [] p.op = "NOT" -> text("NOT (") \o Render(env, p.arg, node) \o text(")")
      [] p.op = "EXISTS" ->
            text("EXISTS { MATCH ") \o patternText(env, p.match.pattern)
            \o (IF IsDefined(p.match.where)
                THEN text(" WHERE ") \o Render(env, p.match.where, p.match.pattern.label)
                ELSE <<>>)
            \o text(" }")
      [] p.op = "single" ->
            text("single(" \o nodeName(env, p.list.pattern.label) \o " IN [")
            \o patternText(env, p.list.pattern)
            \o text(" | " \o nodeName(env, p.list.pattern.label) \o "] WHERE ")
            \o Render(env, p.where, p.list.pattern.label) \o text(")")
      [] p.op = "sizeEq" ->
            text("size([") \o patternText(env, p.list.pattern) \o text(" WHERE ")
            \o Render(env, p.list.where, p.list.pattern.label)
            \o text(" | 1]) = " \o ToString(p.n))
      [] OTHER -> <<>>

RenderAll(env, args, node, separator) ==
    IF args = <<>> THEN <<>>
    ELSE Render(env, Head(args), node)
         \o (IF Tail(args) = <<>> THEN <<>> ELSE text(separator))
         \o RenderAll(env, Tail(args), node, separator)

\* the parameter map: one entry for each parameter the environment named
paramsOf(env) ==
    [name \in {"param" \o ToString(i - 1) : i \in DOMAIN env.params} |->
        env.params[CHOOSE i \in DOMAIN env.params : "param" \o ToString(i - 1) = name].value]

\* MATCH (this:Actor) WHERE <predicate> RETURN this, and its parameters
build(predicate) ==
    LET env == Environment(predicate)
    IN  [cypher |-> text("MATCH (this:Actor)")
                    \o (IF IsDefined(predicate)
                        THEN text(" WHERE ") \o Render(env, predicate, "")
                        ELSE <<>>)
                    \o text(" RETURN this"),
         params |-> paramsOf(env)]

\* translateQuery(neoSchema, query): { cypher, params }
translateQuery(req) ==
    [request |-> req, cypher |-> build(TranslateWhere(req)).cypher,
     params |-> build(TranslateWhere(req)).params]

\* the where arguments of the queries of the filter suite
TranslatedRequests ==
    {Request("relationship", op, FALSE, w, FALSE) : op \in Operators, w \in NodeWheres}
    \cup {Request("relationship", op, TRUE, {}, FALSE) : op \in {"", "NOT"}}
    \cup {Request("connection", op, FALSE, w, TRUE) : op \in Operators \ {""}, w \in EdgeWheres}
    \cup {Request("connection", "SINGLE", FALSE, w, ep) : w \in NodeWheres \ {{}}, ep \in BOOLEAN}
    \cup {Request("union", op, FALSE, w, FALSE) : op \in {"SOME", "ALL", "NONE"}, w \in UnionWheres}
    \cup {Request("interface", "SOME", FALSE, w, FALSE) : w \in NodeWheres \ {{}}}

(***************************************************************************)
(* Projection and aggregation of the attributes of the related nodes and   *)
(* of the relationship.  An attribute has the name the schema exposes and  *)
(* the name of the stored property, which differ under @alias.             *)
(***************************************************************************)
\* myTitle: String @alias(property: "title")
Attribute(name, databaseName) == [name |-> name, databaseName |-> databaseName]

NodeAttributes == {Attribute("title", "title"), Attribute("myTitle", "title")}

EdgeAttributes == {Attribute("screenTime", "screenTime"), Attribute("time", "screenTime")}

\* the alias a selection gives a field in the response, Null if it gives none
ResponseAliases == {Null, "t"}

\* variable.property(name): a property that is not stored reads as null
HasProperty(properties, name) == name \in DOMAIN properties

\* AttributeField.getProjectionField: { [alias]: variable.property(name) } when
\* the field has an alias other than the attribute's name, else the name
\* alone, which projects the property of that name under that name
getProjectionField(alias, attribute) ==
    IF alias # Null /\ alias # attribute.name
    THEN [key |-> alias, property |-> attribute.name]
    ELSE [key |-> attribute.name, property |-> attribute.name]

\* RETURN this1 { .title }: one entry for each related node
project(field, this) ==
    {[value |-> IF HasProperty(e.to, field.property) THEN e.to[field.property] ELSE Null,
      key |-> field.key] :
        e \in Rows(relationshipPattern(moviesField, "Movie"), this)}

\* the property an aggregation reads
aggregatedProperty(attribute) == attribute.databaseName

\* a variant that aggregates the related nodes whatever the where argument
aggregationRowsUnfiltered(relationField, where, this) ==
    MatchedRows(Match(relationshipPattern(relationField, "Movie"), Undefined), this)

\* MATCH (this)-[this0:TYPE]->(this1:Label) WHERE <where>
aggregationRows(relationField, where, this) ==
    MatchedRows(Match(relationshipPattern(relationField, "Movie"),
                      createWherePredicate(where)), this)

\* the values an aggregate function sees: nulls are left out
nodeValues(rows, property) ==
    {e.to[property] : e \in {r \in rows : HasProperty(r.to, property)}}

edgeValues(rows, property) ==
    {RelProperties(e)[property] : e \in {r \in rows : HasProperty(RelProperties(r), property)}}

min(values) == IF values = {} THEN Null ELSE CHOOSE v \in values : \A w \in values : v <= w

max(values) == IF values = {} THEN Null ELSE CHOOSE v \in values : \A w \in values : v >= w

\* the strings of least and of greatest length; the one returned among
\* several depends on the order of the rows
shortest(values) ==
    IF values = {} THEN {Null} ELSE {v \in values : \A w \in values : Len(v) <= Len(w)}

longest(values) ==
    IF values = {} THEN {Null} ELSE {v \in values : \A w \in values : Len(v) >= Len(w)}

\* moviesAggregate(where) { count node { f { shortest longest } } edge { g { min max } } }
\* for one parent: the results it may give
createFieldAggregation(relationField, where, nodeAttribute, edgeAttribute, this) ==
    LET rows == aggregationRows(relationField, where, this)
        strings == nodeValues(rows, aggregatedProperty(nodeAttribute))
        numbers == edgeValues(rows, aggregatedProperty(edgeAttribute))
    IN  {[count |-> Cardinality(rows),
          node |-> [name |-> nodeAttribute.name, shortest |-> s, longest |-> l],
          edge |-> [name |-> edgeAttribute.name, min |-> min(numbers), max |-> max(numbers)]] :
            s \in shortest(strings), l \in longest(strings)}

Selection(where, nodeAttribute, edgeAttribute, alias) ==
    [where |-> where, node |-> nodeAttribute, alias |-> alias, edge |-> edgeAttribute]

NoSelection == Selection({}, Attribute("", ""), Attribute("", ""), Null)

(***************************************************************************)
(* Nested relationship filters over a cyclic type graph: User.adminAccess  *)
(* refers to Tenant, Tenant.admins to User, Tenant.settings to Settings    *)
(* and Settings.tenant to Tenant.  A where input is a set of entries, one  *)
(* for each key; the value of a relationship key is a where input of the   *)
(* type the field refers to, the value of a property key is a literal.     *)
(***************************************************************************)
SchemaTypes == {"User", "Tenant", "Settings"}

RelationField(owner, name, typeMeta, array) ==
    [array |-> array, name |-> name, owner |-> owner, typeMeta |-> typeMeta]

RelationFields ==
    << RelationField("User", "adminAccess", "Tenant", TRUE),
       RelationField("Tenant", "admins", "User", TRUE),
       RelationField("Tenant", "settings", "Settings", FALSE),
       RelationField("Settings", "tenant", "Tenant", FALSE) >>

\* the property a filter of the type may test: userId: String!, id: ID!
propertyOf(element) == IF element = "User" THEN "userId" ELSE "id"

\* the relationship fields of a type that a where input has a key for
relationFieldsIn(element, whereInput) ==
    LET Filtered(f) == f.owner = element /\ \E e \in whereInput : e.key = f.name
    IN  SelectSeq(RelationFields, Filtered)

WhereEntry(key, value) == [value |-> value, key |-> key]

valueOf(whereInput, key) == (CHOOSE e \in whereInput : e.key = key).value

\* the where inputs of a type, nested up to a depth
RECURSIVE WhereInputs(_, _)
WhereInputs(element, depth) ==
    LET fields == {RelationFields[i] : i \in 1..Len(RelationFields)}
        own == {f \in fields : f.owner = element}
        properties == {{}, {WhereEntry(propertyOf(element), {})}}
        nested == UNION {WhereInputs(f.typeMeta, depth - 1) : f \in own}
        relationships ==
            IF depth = 0 THEN {{}}
            ELSE UNION {
                    {{WhereEntry(f.name, g[f]) : f \in chosen} :
                        g \in {h \in [chosen -> nested] :
                                \A f \in chosen :
                                    h[f] \in WhereInputs(f.typeMeta, depth - 1)}} :
                    chosen \in SUBSET own}
    IN  {ps \cup rs : ps \in properties, rs \in relationships}

\* createWherePredicate({ whereInput, element, ... })
whereCall(element, whereInput) == [whereInput |-> whereInput, element |-> element]

NoWhereCall == whereCall("", {})

\* a variant that hands the entry of the key on, not its value
relationshipWhereCallOfEntry(relationField, value) ==
    whereCall(relationField.typeMeta, {WhereEntry(relationField.name, value)})

\* createRelationshipOperation: refNode is the node the field refers to, and
\* createWherePredicate is called on the value of the key for that node
relationshipWhereCall(relationField, value) ==
    whereCall(relationField.typeMeta, value)

\* the calls one createWherePredicate makes: one createRelationshipOperation
\* for each relationship key of its input, in the order of the fields
innerWhereCalls(call) ==
    LET fields == relationFieldsIn(call.element, call.whereInput)
    IN  [i \in 1..Len(fields) |->
            relationshipWhereCall(fields[i], valueOf(call.whereInput, fields[i].name))]

(***************************************************************************)
(* The Neo4jGraphQL instance: its schema getters are async functions, so   *)
(* a call runs to its first await, and what it awaits resumes it later;    *)
(* other calls run in between.                                             *)
(***************************************************************************)
\* the message of the error, without its backquotes
SCHEMA_MISSING_ERROR == "You must await .getSchema() before .assertIndexesAndConstraints()"

DRIVER_MISSING_ERROR == "neo4j-driver Driver missing"

SCHEMA_MODEL_MISSING_ERROR == "SchemaModel not available on subscription mechanism"

VALIDATION_ERROR == "validateDocument"

INIT_ERROR == "init"

Promise(state, value) == [value |-> value, state |-> state]

\* a field that holds no promise yet
NoPromise == Promise("unset", Null)

IsSet(promise) == promise.state # "unset"

Settled(promise) == promise.state \in {"fulfilled", "rejected"}

\* features.subscriptions: no engine, an engine without init, one with init
SubscriptionsEngines == {Null, "events", "init"}

Drivers == {Null, "driver"}

\* constructor: the driver, the features, and type definitions that pass
\* validateDocument or make it throw
Neo4jGraphQL(driver, subscriptions, valid) ==
    [typeDefs |-> valid, nodes |-> Null, driver |-> driver,
     subscriptions |-> subscriptions, schemaModel |-> Null, executableSchema |-> NoPromise,
     subgraphSchema |-> NoPromise, subscriptionInit |-> NoPromise, dbInfo |-> Null]

Instances ==
    {Neo4jGraphQL(d, e, v) : d \in Drivers, e \in SubscriptionsEngines, v \in BOOLEAN}

\* a variant that builds the model on every call
generateSchemaModelAnew(self, built) == "model" \o ToString(built + 1)

\* if (!this.schemaModel) return generateModel(document): the model, named
\* by the number of the generateModel call that built it
generateSchemaModel(self, built) ==
    IF self.schemaModel = Null THEN "model" \o ToString(built + 1) ELSE self.schemaModel

\* the part of both schema generations after validateDocument: it throws,
\* or it sets the schema model and the nodes and gives the schema
augment(self, built, field, id) ==
    IF ~self.typeDefs
    THEN [self EXCEPT ![field] = Promise("rejected", VALIDATION_ERROR)]
    ELSE [self EXCEPT !.schemaModel = generateSchemaModel(self, built),
                      !.nodes = "nodes",
                      ![field] = Promise("fulfilled", ToString(id))]

\* new Promise((resolve) => { ... }): the executor runs at once
generateExecutableSchema(self, built, id) ==
    augment(self, built, "executableSchema", id)

\* an async function: it stops at await import("./Subgraph")
generateSubgraphSchema(self, id) ==
    [self EXCEPT !.subgraphSchema = Promise("pending", ToString(id))]

\* how many times generateModel has run after a generation step
builtAfter(self, generated, built) ==
    IF generated.schemaModel # self.schemaModel THEN built + 1 ELSE built

\* const setup = async () => { ... }: runs up to await init(...)
setup(self) ==
    IF self.subscriptions # "init" THEN Promise("fulfilled", Null)
    ELSE IF self.schemaModel = Null
         THEN Promise("rejected", SCHEMA_MODEL_MISSING_ERROR)
         ELSE Promise("pending", Null)

\* what a call of subscriptionMechanismSetup leaves: the instance and the
\* number of times init was invoked
SetupResult(self, inits) == [instance |-> self, engineInits |-> inits]

\* setup() on an instance: init is invoked when setup reaches its await
runSetup(self, inits) ==
    SetupResult([self EXCEPT !.subscriptionInit = setup(self)],
                IF setup(self).state = "pending" THEN inits + 1 ELSE inits)

\* a variant that runs setup on every call
subscriptionMechanismSetupAnew(self, inits) == runSetup(self, inits)

\* if (this.subscriptionInit) return this.subscriptionInit
subscriptionMechanismSetup(self, inits) ==
    IF IsSet(self.subscriptionInit) THEN SetupResult(self, inits)
    ELSE runSetup(self, inits)

\* a variant that takes the instance's driver only
neo4jDriverOfInstance(self, driver) == self.driver

\* a variant that falls back to a driver of its own
neo4jDriverOrDefault(self, driver) ==
    IF driver # Null THEN driver
    ELSE IF self.driver # Null THEN self.driver ELSE "driver"

\* const neo4jDriver = driver || this.driver
neo4jDriver(self, driver) == IF driver # Null THEN driver ELSE self.driver

\* this.executableSchema || this.subgraphSchema
schemaPromise(self) ==
    IF IsSet(self.executableSchema) THEN self.executableSchema ELSE self.subgraphSchema

Getters == {"getSchema", "getExecutableSchema", "getSubgraphSchema"}

\* the field a schema getter returns
returned(method) ==
    IF method = "getSubgraphSchema" THEN "subgraphSchema" ELSE "executableSchema"

\* the field assertIndexesAndConstraints awaits
awaited(self) ==
    IF IsSet(self.executableSchema) THEN "executableSchema" ELSE "subgraphSchema"

Caller(method, driver, position, awaits, result) ==
    [driver |-> driver, method |-> method, position |-> position,
     awaits |-> awaits, result |-> result]

NoCaller == Caller(Null, Null, "idle", Null, NoPromise)

\* return this.<schema>: the call gives what the promise of the field gives
settle(self, caller) ==
    IF Settled(self[returned(caller.method)])
    THEN [caller EXCEPT !.position = "done",
                        !.result = self[returned(caller.method)]]
    ELSE [caller EXCEPT !.position = "awaitSchema",
                        !.awaits = returned(caller.method)]

(***************************************************************************)
(* connectOrCreate: one MERGE of the node and one MERGE of the             *)
(* relationship for each item of the input list.  A Record<string, any>    *)
(* and a parameter map are sets of entries with distinct names.            *)
(***************************************************************************)
Property(key, value) == [value |-> value, key |-> key]

CypherParam(name, value) == [value |-> value, name |-> name]

\* { where: { node }, onCreate: { node, edge } }
CreateOrConnectInput(whereNode, onCreateNode, onCreateEdge) ==
    [where |-> whereNode, node |-> onCreateNode, edge |-> onCreateEdge]

CreateOrConnectInputs ==
    {CreateOrConnectInput({Property("isan", i)}, n, e) :
        i \in {"i1", "i2"},
        n \in {{}} \cup {{Property("title", t)} : t \in Titles},
        e \in {{}, {Property("screentime", "10")}}}

VarNames == {"this0_movies_connectOrCreate", "this1_movies_connectOrCreate"}

\* the lists of at most n items
RECURSIVE InputLists(_)
InputLists(n) ==
    IF n = 0 THEN {<<>>}
    ELSE InputLists(n - 1) \cup
         {Append(l, i) : l \in {k \in InputLists(n - 1) : Len(k) = n - 1},
                         i \in CreateOrConnectInputs}

\* { ...first, ...second }: an entry of second replaces the entry of first
\* with its name
spread(first, second) ==
    second \cup {e \in first : \A f \in second : f.name # e.name}

generateParameterKey(pre, key) == pre \o "_" \o key

cypherParams(pre, properties) ==
    {CypherParam(generateParameterKey(pre, q.key), q.value) : q \in properties}

Statement(query, params) == [params |-> params, query |-> query]

\* buildMergeStatement({ node: { node, varName, parameters, onCreate } })
buildMergeNodeStatement(varName, parameters, onCreate) ==
    Statement("MERGE (" \o varName \o ":Movie { isan: $"
                  \o generateParameterKey(varName, "isan") \o " })",
              spread(cypherParams(varName, parameters),
                     cypherParams(varName \o "_on_create", onCreate)))

\* buildMergeStatement({ node: { varName }, relation: { varName, onCreate } })
buildMergeRelationStatement(parentVar, varName, onCreate) ==
    Statement("MERGE (" \o parentVar \o ")-[" \o varName
                  \o "_relationship:ACTED_IN]->(" \o varName \o ")",
              cypherParams(varName \o "_relationship_on_create", onCreate))

createConnectOrCreateSubQuery(input, baseName, parentVar) ==
    LET mergeNode == buildMergeNodeStatement(baseName, input.where, input.node)
        mergeRelation == buildMergeRelationStatement(parentVar, baseName, input.edge)
    IN  Statement(mergeNode.query \o "\n" \o mergeRelation.query,
                  spread(mergeNode.params, mergeRelation.params))

\* a variant that names every item after varName alone
subqueryBaseNameOfVar(varName, index) == varName

\* const subqueryBaseName = `${varName}${index}`
subqueryBaseName(varName, index) == varName \o ToString(index)

\* queries.join("\n")
RECURSIVE join(_)
join(queries) ==
    IF Len(queries) = 0 THEN ""
    ELSE IF Len(queries) = 1 THEN queries[1]
    ELSE queries[1] \o "\n" \o join(Tail(queries))

\* input.reduce((acc, inputItem, index) => ..., { queries: [], params: {} })
\* over the first n items
RECURSIVE reduce(_, _, _, _)
reduce(input, varName, parentVar, n) ==
    IF n = 0 THEN [params |-> {}, queries |-> <<>>]
    ELSE LET acc == reduce(input, varName, parentVar, n - 1)
             sub == createConnectOrCreateSubQuery(
                        input[n], subqueryBaseName(varName, n - 1), parentVar)
         IN  [params |-> spread(sub.params, acc.params),
              queries |-> Append(acc.queries, sub.query)]

createConnectOrCreateAndParams(input, varName, parentVar) ==
    LET result == reduce(input, varName, parentVar, Len(input))
    IN  Statement(join(result.queries), result.params)

ConnectOrCreateArguments(input, varName, parentVar) ==
    [varName |-> varName, parentVar |-> parentVar, input |-> input]

(***************************************************************************)
(* TestHelper: initNeo4jGraphQL and close are async, the lock is one       *)
(* boolean of the module, and getDriver is memoized for each helper.       *)
(***************************************************************************)
STILL_OPEN_ERROR == "TestHelper still open. Did you forget calling .close()?"

ALREADY_INITIALIZED_ERROR == "Neo4jGraphQL already initialized"

UNOPENED_ERROR == "Closing unopened testHelper. Did you forget to call initNeo4jGraphQL?"

CONNECT_ERROR == "Could not connect to neo4j"

CLEAN_ERROR == "cleanNodes"

\* a helper: its neo4jGraphQL field, the promise of its memoized getDriver,
\* whether it is initialised and not yet closed, and the call it is in
TestHelper(neo4jGraphQL, driver, open, method, position, result) ==
    [driver |-> driver, method |-> method, position |-> position, result |-> result,
     neo4jGraphQL |-> neo4jGraphQL, open |-> open]

NewTestHelper == TestHelper(FALSE, NoPromise, FALSE, Null, "idle", NoPromise)

Thrown(self, method, message) ==
    [self EXCEPT !.method = method, !.position = "idle",
                 !.result = Promise("rejected", message)]

Awaiting(self, method, position) ==
    [self EXCEPT !.method = method, !.position = position, !.result = NoPromise]

\* @Memoize() getDriver: the first call connects, every call gives its promise
getDriver(self) ==
    IF IsSet(self.driver) THEN self
    ELSE [self EXCEPT !.driver = Promise("pending", Null)]

HelperState(lock, self) == [helperLock |-> lock, self |-> self]

\* a variant that takes the lock without looking at it
initNeo4jGraphQLUnlocked(lock, self) ==
    IF self.neo4jGraphQL
    THEN HelperState(TRUE, Thrown(self, "initNeo4jGraphQL", ALREADY_INITIALIZED_ERROR))
    ELSE HelperState(TRUE, Awaiting(getDriver(self), "initNeo4jGraphQL", "awaitDriver"))

\* initNeo4jGraphQL up to await this.getDriver()
initNeo4jGraphQL(lock, self) ==
    IF lock
    THEN HelperState(lock, Thrown(self, "initNeo4jGraphQL", STILL_OPEN_ERROR))
    ELSE IF self.neo4jGraphQL
    THEN HelperState(TRUE, Thrown(self, "initNeo4jGraphQL", ALREADY_INITIALIZED_ERROR))
    ELSE HelperState(TRUE, Awaiting(getDriver(self), "initNeo4jGraphQL", "awaitDriver"))

\* close up to await this.getDriver()
close(lock, self) ==
    IF ~lock
    THEN HelperState(lock, Thrown(self, "close", UNOPENED_ERROR))
    ELSE HelperState(lock, Awaiting(getDriver(self), "close", "awaitDriver"))

(***************************************************************************)
(* Actions.                                                                *)
(***************************************************************************)
InitFilter ==
    /\ edges = {}
    /\ pc = "seed"
    /\ request = NoRequest
    /\ cypher = Undefined
    /\ data = {}

InitAuthorization ==
    /\ records = {}
    /\ authPc = "seed"
    /\ authRequest = NoAuthRequest
    /\ subquery = Undefined
    /\ response = Response(<<>>, {})

InitAuthentication ==
    /\ contextValue = NoToken
    /\ rootField = Null
    /\ gqlResult = Response(<<>>, Null)

\* what the specifications of the other features leave as it was constructed
InitAggregate ==
    /\ selection = NoSelection
    /\ aggregate = [this \in Parents |-> {}]
    /\ projected = [this \in Parents |-> {}]

InitCompile ==
    /\ whereArgument = NoWhereCall
    /\ whereCalls = <<>>
    /\ compilePc = "idle"

InitCallers ==
    /\ callers = [c \in 1..MaxCallers |-> NoCaller]
    /\ engineInits = 0
    /\ modelsBuilt = 0
    /\ schemasGenerated = [executableSchema |-> 0, subgraphSchema |-> 0]
    /\ dbQueries = 0

InitConnect ==
    /\ connectOrCreate = ConnectOrCreateArguments(<<>>, "", "")
    /\ connected = Statement("", {})

InitHelpers ==
    /\ helperLock = FALSE
    /\ helpers = [h \in 1..MaxHelpers |-> NewTestHelper]
    /\ strayClose = FALSE

InitMore ==
    /\ InitCompile
    /\ InitCallers
    /\ InitConnect
    /\ InitHelpers
    /\ instance = Neo4jGraphQL(Null, Null, TRUE)

InitPopulate ==
    /\ entities = {}
    /\ counter = 0
    /\ results = <<>>

\* what the specifications of the other features leave as it was constructed
InitExt ==
    /\ InitAuthentication
    /\ typeDefs = NoAuthentication
    /\ InitPopulate
    /\ populatedBy = NoPopulatedBy
    /\ translations = <<>>
    /\ InitAggregate
    /\ InitMore

\* what the specifications of the instance leave as it was constructed
InitRest ==
    /\ InitFilter
    /\ InitAuthorization
    /\ authorization = NoAuthorization
    /\ InitAuthentication
    /\ typeDefs = NoAuthentication
    /\ InitPopulate
    /\ populatedBy = NoPopulatedBy
    /\ translations = <<>>
    /\ InitAggregate

restVars ==
    <<filterVars, authVars, authnVars, populateVars, translateVars, aggregateVars>>

extVars == <<authnVars, populateVars, translateVars, aggregateVars, moreVars>>

Init ==
    /\ InitFilter
    /\ InitAuthorization
    /\ authorization = NoAuthorization
    /\ InitExt

\* CREATE (a)-[:ACTED_IN {screenTime: $s}]->(:Label {title: $t})
CreateEdge ==
    /\ pc = "seed"
    /\ Cardinality(edges) < MaxEdges
    /\ \E e \in EdgeUniverse \ edges : edges' = edges \cup {e}
    /\ UNCHANGED <<pc, request, cypher, data>>
    /\ UNCHANGED authVars
    /\ UNCHANGED extVars

RunGraphQL(req) ==
    /\ pc = "seed"
    /\ request' = req
    /\ cypher' = TranslateWhere(req)
    /\ data' = Execute(TranslateWhere(req))
    /\ pc' = "done"
    /\ UNCHANGED edges
    /\ UNCHANGED authVars
    /\ UNCHANGED extVars

QueryRelationship ==
    \/ \E op \in Operators, w \in NodeWheres :
            RunGraphQL(Request("relationship", op, FALSE, w, FALSE))
    \/ \E op \in {"", "NOT"} :
            RunGraphQL(Request("relationship", op, TRUE, {}, FALSE))

QueryConnection ==
    \/ \E op \in Operators \ {""}, w \in EdgeWheres :
            RunGraphQL(Request("connection", op, FALSE, w, TRUE))
    \/ \E w \in NodeWheres \ {{}}, ep \in BOOLEAN :
            RunGraphQL(Request("connection", "SINGLE", FALSE, w, ep))

QueryUnion ==
    \E op \in {"SOME", "ALL", "NONE", "SINGLE"}, w \in UnionWheres :
        /\ op = "SINGLE" => Cardinality(w) = 1
        /\ RunGraphQL(Request("union", op, FALSE, w, FALSE))

QueryInterface ==
    \E w \in NodeWheres \ {{}} :
        RunGraphQL(Request("interface", "SOME", FALSE, w, FALSE))

\* a filter on the field that is not a list
QueryToOne ==
    \E op \in Operators, w \in NodeWheres :
        RunGraphQL(Request("toOne", op, FALSE, w, FALSE))

NextToOne ==
    \/ CreateEdge
    \/ QueryToOne

SpecToOne == Init /\ [][NextToOne]_vars

Next ==
    \/ CreateEdge
    \/ QueryRelationship
    \/ QueryConnection
    \/ QueryUnion
    \/ QueryInterface

Spec == Init /\ [][Next]_vars

\* the schema is built once, with the rules its type definitions declare
InitAuth ==
    /\ InitFilter
    /\ InitAuthorization
    /\ authorization \in
            {Authorization(f, v) : f \in RuleLists(FilterRules), v \in RuleLists(ValidateRules)}
    /\ InitExt

\* CREATE (parent)-[:HAS]->(:Record {ownerId: $o, title: $t})
CreateRecord ==
    /\ authPc = "seed"
    /\ Cardinality(records) < MaxRecords
    /\ \E r \in RecordNodes \ records : records' = records \cup {r}
    /\ UNCHANGED <<authorization, authPc, authRequest, subquery, response>>
    /\ UNCHANGED filterVars
    /\ UNCHANGED extVars

\* a query reading the connection with a token and a where argument
ReadConnection ==
    /\ authPc = "seed"
    /\ \E jwt \in Jwts, w \in NodeWheres :
        LET clause == createEdgeSubquery(moviesField, "Movie", authorization, w, jwt)
        IN  /\ authRequest' = AuthRequest(jwt, w)
            /\ subquery' = clause
            /\ response' \in Outcomes(clause)
    /\ authPc' = "done"
    /\ UNCHANGED <<authorization, records>>
    /\ UNCHANGED filterVars
    /\ UNCHANGED extVars

NextAuth ==
    \/ CreateRecord
    \/ ReadConnection

SpecAuth == InitAuth /\ [][NextAuth]_vars

\* the schema is built once, with the @authentication its type definitions declare
InitAuthn ==
    /\ InitFilter
    /\ InitAuthorization
    /\ authorization = NoAuthorization
    /\ InitAuthentication
    /\ typeDefs \in AuthenticationTypeDefs
    /\ InitPopulate
    /\ populatedBy = NoPopulatedBy
    /\ translations = <<>>
    /\ InitAggregate
    /\ InitMore

\* graphql({ schema, source, contextValue }) selecting one root field
ExecuteRootField(field) ==
    /\ rootField = Null
    /\ \E token \in Tokens :
        /\ contextValue' = token
        /\ gqlResult' = wrapQueryAndMutation(typeDefs, field, token)
    /\ rootField' = field
    /\ UNCHANGED typeDefs
    /\ UNCHANGED <<filterVars, authVars>>
    /\ UNCHANGED <<populateVars, translateVars, aggregateVars>>
    /\ UNCHANGED moreVars

\* { me { customId } }
QueryMe == ExecuteRootField("Query.me")

\* mutation { updateMe(id: 3) { customId } }
MutationUpdateMe == ExecuteRootField("Mutation.updateMe")

NextAuthn ==
    \/ QueryMe
    \/ MutationUpdateMe

SpecAuthn == InitAuthn /\ [][NextAuthn]_vars

\* the schema is built once, with the directive and the registered callback
InitPopulatedBy ==
    /\ InitFilter
    /\ InitAuthorization
    /\ authorization = NoAuthorization
    /\ InitAuthentication
    /\ typeDefs = NoAuthentication
    /\ InitPopulate
    /\ populatedBy \in PopulatedByDirectives
    /\ translations = <<>>
    /\ InitAggregate
    /\ InitMore

\* executeCypher: a record created before the mutation, without the library
SeedEntity ==
    /\ results = <<>>
    /\ counter = 0
    /\ \E id \in EntityIds, t \in Titles, c \in {Null, seeded} :
        /\ ~IsStored(id)
        /\ entities' = entities \cup {Entity(id, t, c)}
    /\ UNCHANGED <<populatedBy, counter, results>>
    /\ UNCHANGED <<filterVars, authVars, authnVars, translateVars, aggregateVars>>
    /\ UNCHANGED moreVars

\* create(input: [{ id, title }]) { id callback }
CreateOperation ==
    /\ Len(results) < MaxOperations
    /\ \E input \in CreateInputs :
        /\ ~IsStored(input.id)
        /\ LET props == addCallbackAndSetParam(populatedBy, "CREATE", counter,
                                                Entity(input.id, input.title, Null))
           IN  /\ entities' = entities \cup {props}
               /\ results' = Append(results, OperationResult("CREATE", props))
    /\ counter' = countAfter(populatedBy, "CREATE", counter)
    /\ UNCHANGED populatedBy
    /\ UNCHANGED <<filterVars, authVars, authnVars, translateVars, aggregateVars>>
    /\ UNCHANGED moreVars

\* update(where: { id: $movieId }, update: { id: $movieId }) { id callback }
UpdateOperation ==
    /\ Len(results) < MaxOperations
    /\ \E id \in EntityIds :
        /\ IsStored(id)
        /\ LET old == Stored(id)
               set == [old EXCEPT !.id = id]
               props == addCallbackAndSetParam(populatedBy, "UPDATE", counter, set)
           IN  /\ entities' = (entities \ {old}) \cup {props}
               /\ results' = Append(results, OperationResult("UPDATE", props))
    /\ counter' = countAfter(populatedBy, "UPDATE", counter)
    /\ UNCHANGED populatedBy
    /\ UNCHANGED <<filterVars, authVars, authnVars, translateVars, aggregateVars>>
    /\ UNCHANGED moreVars

NextPopulatedBy ==
    \/ SeedEntity
    \/ CreateOperation
    \/ UpdateOperation

SpecPopulatedBy == InitPopulatedBy /\ [][NextPopulatedBy]_vars

TranslateQuery ==
    /\ Len(translations) < MaxTranslations
    /\ \E req \in TranslatedRequests :
        translations' = Append(translations, translateQuery(req))
    /\ UNCHANGED <<filterVars, authVars, authnVars, populateVars, aggregateVars>>
    /\ UNCHANGED moreVars

NextTranslate == TranslateQuery

SpecTranslate == Init /\ [][NextTranslate]_vars

\* the translation of a filter and of a connection field of one schema
NextLabels ==
    \/ QueryRelationship
    \/ QueryConnection
    \/ QueryUnion
    \/ QueryInterface
    \/ ReadConnection

SpecLabels == Init /\ [][NextLabels]_vars

\* actors { moviesAggregate(where: ...) { ... } movies { alias: field } }
QueryAggregate ==
    /\ pc = "seed"
    /\ pc' = "done"
    /\ \E where \in NodeWheres, nodeAttribute \in NodeAttributes,
          edgeAttribute \in EdgeAttributes, alias \in ResponseAliases :
        /\ selection' = Selection(where, nodeAttribute, edgeAttribute, alias)
        /\ \E a \in createFieldAggregation(moviesField, where, nodeAttribute, edgeAttribute, "a"),
              b \in createFieldAggregation(moviesField, where, nodeAttribute, edgeAttribute, "a2") :
            aggregate' = [this \in Parents |-> IF this = "a" THEN {a} ELSE {b}]
        /\ projected' = [this \in Parents |->
                            project(getProjectionField(alias, nodeAttribute), this)]
    /\ UNCHANGED <<edges, request, cypher, data>>
    /\ UNCHANGED <<authVars, authnVars, populateVars, translateVars>>
    /\ UNCHANGED moreVars

NextAggregate ==
    \/ CreateEdge
    \/ QueryAggregate

SpecAggregate == Init /\ [][NextAggregate]_vars

\* translateQuery hands the where argument of a root field to
\* createWherePredicate
CompileWhere ==
    /\ compilePc = "idle"
    /\ \E element \in SchemaTypes :
        \E whereInput \in WhereInputs(element, MaxDepth) :
            /\ whereArgument' = whereCall(element, whereInput)
            /\ whereCalls' = <<whereCall(element, whereInput)>>
    /\ compilePc' = "compiling"
    /\ UNCHANGED <<restVars, instanceVars, connectVars, helperVars>>

\* one call of createWherePredicate runs: each relationship key of its
\* input makes one call of createRelationshipOperation, which calls
\* createWherePredicate again
CreateWherePredicate ==
    /\ compilePc = "compiling"
    /\ whereCalls' = innerWhereCalls(Head(whereCalls)) \o Tail(whereCalls)
    /\ compilePc' =
            IF Len(innerWhereCalls(Head(whereCalls))) + Len(whereCalls) = 1
            THEN "done" ELSE "compiling"
    /\ UNCHANGED whereArgument
    /\ UNCHANGED <<restVars, instanceVars, connectVars, helperVars>>

\* new Neo4jGraphQL({ typeDefs, driver, features })
InitInstance ==
    /\ InitRest
    /\ InitCompile
    /\ InitCallers
    /\ InitConnect
    /\ InitHelpers
    /\ instance \in Instances

\* getExecutableSchema, and getSchema, which returns what it returns
CallGetExecutableSchema(c, method) ==
    /\ callers[c].position = "idle"
    /\ IF ~IsSet(instance.executableSchema)
       THEN LET id == schemasGenerated.executableSchema + 1
                generated == generateExecutableSchema(instance, modelsBuilt, id)
                after == subscriptionMechanismSetup(generated, engineInits)
            IN  /\ instance' = after.instance
                /\ engineInits' = after.engineInits
                /\ modelsBuilt' = builtAfter(instance, generated, modelsBuilt)
                /\ schemasGenerated' = [schemasGenerated EXCEPT !.executableSchema = id]
                /\ callers' = [callers EXCEPT ![c] =
                        Caller(method, Null, "awaitSubscriptionInit", Null, NoPromise)]
       ELSE /\ callers' = [callers EXCEPT ![c] =
                    settle(instance, Caller(method, Null, "idle", Null, NoPromise))]
            /\ UNCHANGED <<instance, engineInits, modelsBuilt, schemasGenerated>>
    /\ UNCHANGED dbQueries
    /\ UNCHANGED <<restVars, compileVars, connectVars, helperVars>>

GetSchema == \E c \in 1..MaxCallers : CallGetExecutableSchema(c, "getSchema")

GetExecutableSchema ==
    \E c \in 1..MaxCallers : CallGetExecutableSchema(c, "getExecutableSchema")

GetSubgraphSchema ==
    \E c \in 1..MaxCallers :
        /\ callers[c].position = "idle"
        /\ IF ~IsSet(instance.subgraphSchema)
           THEN LET id == schemasGenerated.subgraphSchema + 1
                    generated == generateSubgraphSchema(instance, id)
                    after == subscriptionMechanismSetup(generated, engineInits)
                IN  /\ instance' = after.instance
                    /\ engineInits' = after.engineInits
                    /\ schemasGenerated' = [schemasGenerated EXCEPT !.subgraphSchema = id]
                    /\ callers' = [callers EXCEPT ![c] =
                            Caller("getSubgraphSchema", Null, "awaitSubscriptionInit", Null, NoPromise)]
           ELSE /\ callers' = [callers EXCEPT ![c] =
                        settle(instance, Caller("getSubgraphSchema", Null, "idle", Null, NoPromise))]
                /\ UNCHANGED <<instance, engineInits, schemasGenerated>>
        /\ UNCHANGED <<modelsBuilt, dbQueries>>
        /\ UNCHANGED <<restVars, compileVars, connectVars, helperVars>>

\* generateSubgraphSchema goes on after await import("./Subgraph")
ImportSubgraph ==
    /\ instance.subgraphSchema.state = "pending"
    /\ LET generated == augment(instance, modelsBuilt, "subgraphSchema",
                                schemasGenerated.subgraphSchema)
       IN  /\ instance' = generated
           /\ modelsBuilt' = builtAfter(instance, generated, modelsBuilt)
    /\ UNCHANGED <<callers, engineInits, schemasGenerated, dbQueries>>
    /\ UNCHANGED <<restVars, compileVars, connectVars, helperVars>>

\* the promise of subscriptionsEngine.init settles
InitSettles ==
    /\ instance.subscriptionInit.state = "pending"
    /\ \E outcome \in {Promise("fulfilled", Null), Promise("rejected", INIT_ERROR)} :
            instance' = [instance EXCEPT !.subscriptionInit = outcome]
    /\ UNCHANGED <<callers, engineInits, modelsBuilt, schemasGenerated, dbQueries>>
    /\ UNCHANGED <<restVars, compileVars, connectVars, helperVars>>

\* a getter goes on after await this.subscriptionMechanismSetup()
ResumeGetter ==
    \E c \in 1..MaxCallers :
        /\ callers[c].position = "awaitSubscriptionInit"
        /\ Settled(instance.subscriptionInit)
        /\ callers' = [callers EXCEPT ![c] =
                IF instance.subscriptionInit.state = "rejected"
                THEN [callers[c] EXCEPT !.position = "done",
                                        !.result = instance.subscriptionInit]
                ELSE settle(instance, callers[c])]
        /\ UNCHANGED <<instance, engineInits, modelsBuilt, schemasGenerated, dbQueries>>
        /\ UNCHANGED <<restVars, compileVars, connectVars, helperVars>>

\* the promise a getter returned follows the promise of the schema
SchemaSettles ==
    \E c \in 1..MaxCallers :
        /\ callers[c].position = "awaitSchema"
        /\ callers[c].method \in Getters
        /\ Settled(instance[callers[c].awaits])
        /\ callers' = [callers EXCEPT ![c] = settle(instance, callers[c])]
        /\ UNCHANGED <<instance, engineInits, modelsBuilt, schemasGenerated, dbQueries>>
        /\ UNCHANGED <<restVars, compileVars, connectVars, helperVars>>

\* assertIndexesAndConstraints({ driver }) up to its first await
AssertIndexesAndConstraints ==
    \E c \in 1..MaxCallers, driver \in Drivers :
        /\ callers[c].position = "idle"
        /\ callers' = [callers EXCEPT ![c] =
                IF ~IsSet(schemaPromise(instance))
                THEN Caller("assertIndexesAndConstraints", driver, "done", Null,
                            Promise("rejected", SCHEMA_MISSING_ERROR))
                ELSE Caller("assertIndexesAndConstraints", driver, "awaitSchema",
                            awaited(instance), NoPromise)]
        /\ UNCHANGED <<instance, engineInits, modelsBuilt, schemasGenerated, dbQueries>>
        /\ UNCHANGED <<restVars, compileVars, connectVars, helperVars>>

\* after await (this.executableSchema || this.subgraphSchema): the driver
\* is looked up, and the database is asked for its info or for its indexes
AssertAfterSchema ==
    \E c \in 1..MaxCallers :
        /\ callers[c].position = "awaitSchema"
        /\ callers[c].method = "assertIndexesAndConstraints"
        /\ Settled(instance[callers[c].awaits])
        /\ IF instance[callers[c].awaits].state = "rejected"
           THEN /\ callers' = [callers EXCEPT ![c].position = "done",
                                              ![c].result = instance[callers[c].awaits]]
                /\ UNCHANGED dbQueries
           ELSE IF neo4jDriver(instance, callers[c].driver) = Null
           THEN /\ callers' = [callers EXCEPT ![c].position = "done",
                                              ![c].result = Promise("rejected", DRIVER_MISSING_ERROR)]
                /\ UNCHANGED dbQueries
           ELSE /\ callers' = [callers EXCEPT ![c].position =
                        IF instance.dbInfo = Null THEN "awaitDbInfo" ELSE "awaitAssert"]
                /\ dbQueries' = dbQueries + 1
        /\ UNCHANGED <<instance, engineInits, modelsBuilt, schemasGenerated>>
        /\ UNCHANGED <<restVars, compileVars, connectVars, helperVars>>

\* this.dbInfo = await this.getNeo4jDatabaseInfo(...), then the indexes and
\* constraints are asserted
DbInfoArrives ==
    \E c \in 1..MaxCallers :
        /\ callers[c].position = "awaitDbInfo"
        /\ instance' = [instance EXCEPT !.dbInfo = "dbInfo"]
        /\ callers' = [callers EXCEPT ![c].position = "awaitAssert"]
        /\ dbQueries' = dbQueries + 1
        /\ UNCHANGED <<engineInits, modelsBuilt, schemasGenerated>>
        /\ UNCHANGED <<restVars, compileVars, connectVars, helperVars>>

AssertDone ==
    \E c \in 1..MaxCallers :
        /\ callers[c].position = "awaitAssert"
        /\ callers' = [callers EXCEPT ![c].position = "done",
                                      ![c].result = Promise("fulfilled", Null)]
        /\ UNCHANGED <<instance, engineInits, modelsBuilt, schemasGenerated, dbQueries>>
        /\ UNCHANGED <<restVars, compileVars, connectVars, helperVars>>

NextInstance ==
    \/ GetSchema
    \/ GetExecutableSchema
    \/ GetSubgraphSchema
    \/ ImportSubgraph
    \/ InitSettles
    \/ ResumeGetter
    \/ SchemaSettles
    \/ AssertIndexesAndConstraints
    \/ AssertAfterSchema
    \/ DbInfoArrives
    \/ AssertDone

SpecInstance == InitInstance /\ [][NextInstance]_vars

\* a mutation with connectOrCreate: [ ... ] on a relationship field
ConnectOrCreate ==
    /\ connectOrCreate.varName = ""
    /\ \E input \in InputLists(MaxItems), varName \in VarNames :
        /\ connectOrCreate' = ConnectOrCreateArguments(input, varName, "this0")
        /\ connected' = createConnectOrCreateAndParams(input, varName, "this0")
    /\ UNCHANGED <<restVars, compileVars, instanceVars, helperVars>>

NextConnect == ConnectOrCreate

SpecConnect == Init /\ [][NextConnect]_vars

\* await testHelper.initNeo4jGraphQL({ typeDefs })
InitNeo4jGraphQL ==
    \E h \in 1..MaxHelpers :
        /\ helpers[h].position = "idle"
        /\ helperLock' = initNeo4jGraphQL(helperLock, helpers[h]).helperLock
        /\ helpers' = [helpers EXCEPT ![h] = initNeo4jGraphQL(helperLock, helpers[h]).self]
        /\ UNCHANGED strayClose
        /\ UNCHANGED <<restVars, compileVars, instanceVars, connectVars>>

\* await testHelper.close()
Close ==
    \E h \in 1..MaxHelpers :
        /\ helpers[h].position = "idle"
        /\ helperLock' = close(helperLock, helpers[h]).helperLock
        /\ helpers' = [helpers EXCEPT ![h] = close(helperLock, helpers[h]).self]
        /\ strayClose' = (strayClose \/ (helperLock /\ ~helpers[h].open))
        /\ UNCHANGED <<restVars, compileVars, instanceVars, connectVars>>

\* checkConnectivity(driver) of a helper's getDriver succeeds
DriverConnects ==
    \E h \in 1..MaxHelpers :
        /\ helpers[h].driver.state = "pending"
        /\ helpers' = [helpers EXCEPT ![h].driver = Promise("fulfilled", "driver")]
        /\ UNCHANGED <<helperLock, strayClose>>
        /\ UNCHANGED <<restVars, compileVars, instanceVars, connectVars>>

\* checkConnectivity(driver) throws: Could not connect to neo4j
DriverFails ==
    \E h \in 1..MaxHelpers :
        /\ helpers[h].driver.state = "pending"
        /\ helpers' = [helpers EXCEPT ![h].driver = Promise("rejected", CONNECT_ERROR)]
        /\ UNCHANGED <<helperLock, strayClose>>
        /\ UNCHANGED <<restVars, compileVars, instanceVars, connectVars>>

\* initNeo4jGraphQL after await this.getDriver()
InitAfterDriver ==
    \E h \in 1..MaxHelpers :
        /\ helpers[h].method = "initNeo4jGraphQL"
        /\ helpers[h].position = "awaitDriver"
        /\ Settled(helpers[h].driver)
        /\ helpers' = [helpers EXCEPT ![h] =
                IF helpers[h].driver.state = "rejected"
                THEN Thrown(helpers[h], "initNeo4jGraphQL", CONNECT_ERROR)
                ELSE [helpers[h] EXCEPT !.neo4jGraphQL = TRUE,
                                        !.open = TRUE,
                                        !.position = "idle",
                                        !.result = Promise("fulfilled", "neo4jGraphQL")]]
        /\ UNCHANGED <<helperLock, strayClose>>
        /\ UNCHANGED <<restVars, compileVars, instanceVars, connectVars>>

\* close after await this.getDriver(): preClose, then cleanNodes is called
CloseAfterDriver ==
    \E h \in 1..MaxHelpers :
        /\ helpers[h].method = "close"
        /\ helpers[h].position = "awaitDriver"
        /\ Settled(helpers[h].driver)
        /\ helpers' = [helpers EXCEPT ![h] =
                IF helpers[h].driver.state = "rejected"
                THEN Thrown(helpers[h], "close", CONNECT_ERROR)
                ELSE Awaiting(helpers[h], "close", "awaitCleanNodes")]
        /\ UNCHANGED <<helperLock, strayClose>>
        /\ UNCHANGED <<restVars, compileVars, instanceVars, connectVars>>

\* cleanNodes and driver.close() have resolved: helperLock = false
CloseCompletes ==
    \E h \in 1..MaxHelpers :
        /\ helpers[h].method = "close"
        /\ helpers[h].position = "awaitCleanNodes"
        /\ helperLock' = FALSE
        /\ helpers' = [helpers EXCEPT ![h].open = FALSE,
                                      ![h].position = "idle",
                                      ![h].result = Promise("fulfilled", Null)]
        /\ UNCHANGED strayClose
        /\ UNCHANGED <<restVars, compileVars, instanceVars, connectVars>>

\* cleanNodes or driver.close() has rejected
CloseThrows ==
    \E h \in 1..MaxHelpers :
        /\ helpers[h].method = "close"
        /\ helpers[h].position = "awaitCleanNodes"
        /\ helpers' = [helpers EXCEPT ![h] = Thrown(helpers[h], "close", CLEAN_ERROR)]
        /\ UNCHANGED <<helperLock, strayClose>>
        /\ UNCHANGED <<restVars, compileVars, instanceVars, connectVars>>

NextHelper ==
    \/ InitNeo4jGraphQL
    \/ Close
    \/ DriverConnects
    \/ DriverFails
    \/ InitAfterDriver
    \/ CloseAfterDriver
    \/ CloseCompletes
    \/ CloseThrows

SpecHelper == Init /\ [][NextHelper]_vars

NextCompile ==
    \/ CompileWhere
    \/ CreateWherePredicate

\* a call that was made runs: the translation is one synchronous function
SpecCompile == Init /\ [][NextCompile]_vars /\ WF_vars(CreateWherePredicate)

(***************************************************************************)
(* Reference semantics of a filter, read off the fixture directly.         *)
(***************************************************************************)
StoredLabel == [Movie |-> "Film", Series |-> "Series"]

FilmPattern == [label |-> "Film", type |-> "ACTED_IN", direction |-> "OUT"]

Related(this, typeName) ==
    {e \in edges : e.from = this /\ e.to.label = StoredLabel[typeName]}

Satisfies(where, e) ==
    \A c \in where :
        IF c.on = "node" THEN e.to[c.prop] = c.value ELSE e[c.prop] = c.value

Matching(this, typeName, where) ==
    {e \in Related(this, typeName) : Satisfies(where, e)}

Ran(kinds, operators) ==
    /\ pc = "done"
    /\ request.kind \in kinds
    /\ request.operator \in operators
    /\ ~request.isNull

Constrained == request.where # {}

InnerOf(where) == LET c == CHOOSE c \in where : TRUE IN Eq(c.on, c.prop, c.value)

\* what the same query returns on this fixture under another operator
ResultUnder(operator) ==
    Execute(TranslateWhere([request EXCEPT !.operator = operator]))

(***************************************************************************)
(* C1: an ALL filter with a non-empty inner predicate P compiles to        *)
(* EXISTS(match WHERE P) AND NOT EXISTS(match WHERE NOT P), and a parent   *)
(* is returned iff it has at least one related entity and every one of     *)
(* them satisfies P; a parent with none is never returned.                 *)
(***************************************************************************)
C1_AllNeedsOneAndEvery ==
    (Ran({"relationship", "connection"}, {"ALL"}) /\ Constrained) =>
        /\ cypher = [op |-> "AND", args |->
                <<Exists(Match(FilmPattern, InnerOf(request.where))),
                  Not(Exists(Match(FilmPattern, Not(InnerOf(request.where)))))>>]
        /\ \A this \in Parents :
                this \in data <=>
                    /\ Related(this, "Movie") # {}
                    /\ \A e \in Related(this, "Movie") : Satisfies(request.where, e)

C1_Witness ==
    /\ Ran({"relationship"}, {"ALL"}) /\ Constrained
    /\ Related("a", "Movie") = {} /\ "a" \notin data
    /\ Cardinality(Related("a2", "Movie")) >= 2 /\ "a2" \in data

(***************************************************************************)
(* C2, as claimed: the ALL form and the NONE form of one relationship      *)
(* filter are exact complements, exactly one of the two holds of a parent  *)
(* (stated on filters with a non-empty inner predicate; with an empty one  *)
(* both forms compile to no predicate and both hold of every parent).      *)
(***************************************************************************)
C2_AllNoneComplements ==
    (Ran({"relationship", "connection"}, {"ALL"}) /\ Constrained) =>
        \A this \in Parents : (this \in data) # (this \in ResultUnder("NONE"))

(***************************************************************************)
(* C2, amended: with a non-empty inner predicate the ALL form and the NONE *)
(* form never hold of the same parent, and neither holds exactly when some *)
(* related entity satisfies the predicate and another does not.            *)
(***************************************************************************)
C2_AllNoneExclusive ==
    (Ran({"relationship", "connection"}, {"ALL"}) /\ Constrained) =>
        \A this \in Parents :
            /\ ~(this \in data /\ this \in ResultUnder("NONE"))
            /\ (this \notin data /\ this \notin ResultUnder("NONE")) <=>
                    /\ Matching(this, "Movie", request.where) # {}
                    /\ Matching(this, "Movie", request.where) # Related(this, "Movie")

C2_Witness ==
    /\ Ran({"relationship"}, {"ALL"}) /\ Constrained
    /\ "a" \notin data /\ "a" \notin ResultUnder("NONE")
    /\ "a2" \notin data /\ "a2" \in ResultUnder("NONE")

(***************************************************************************)
(* C3: an ALL filter whose inner where carries no constraint compiles to   *)
(* no predicate, so a parent with no related entity is returned.           *)
(***************************************************************************)
C3_AllUnconstrainedKeepsEmpty ==
    (Ran({"relationship"}, {"ALL"}) /\ ~Constrained) =>
        /\ cypher = Undefined
        /\ \A this \in Parents : Related(this, "Movie") = {} => this \in data

C3_Witness ==
    /\ Ran({"relationship"}, {"ALL"}) /\ ~Constrained
    /\ Related("a", "Movie") = {} /\ "a" \in data
    /\ Related("a2", "Movie") # {}

(***************************************************************************)
(* C4, as claimed: a SINGLE filter holds of a parent iff exactly one       *)
(* related entity satisfies the inner predicate.                           *)
(***************************************************************************)
C4_SingleCountsEntities ==
    (Ran({"relationship", "connection"}, {"SINGLE"}) /\ Constrained) =>
        \A this \in Parents :
            this \in data <=>
                Cardinality({e.to : e \in Matching(this, "Movie", request.where)}) = 1

(***************************************************************************)
(* C4, amended: a SINGLE filter holds of a parent iff exactly one of its   *)
(* relationships leads to a related entity of the filtered type with the   *)
(* inner predicate satisfied; an entity related twice counts twice.  It is *)
(* false for 0 and for 2 or more, whatever other related entities exist.   *)
(***************************************************************************)
C4_SingleCountsRelationships ==
    /\ (Ran({"relationship", "connection"}, {"SINGLE"}) /\ Constrained) =>
            \A this \in Parents :
                this \in data <=>
                    Cardinality(Matching(this, "Movie", request.where)) = 1
    /\ (Ran({"union"}, {"SINGLE"})) =>
            \A this \in Parents :
                this \in data <=>
                    \A w \in request.where :
                        Cardinality(Matching(this, w.type, w.where)) = 1

C4_Witness ==
    /\ Ran({"connection"}, {"SINGLE"}) /\ request.edgePredicate
    /\ \E c \in request.where : c.on = "edge"
    /\ Cardinality(Related("a", "Movie")) = 2
    /\ Cardinality(Matching("a", "Movie", request.where)) = 1
    /\ "a" \in data
    /\ Matching("a2", "Movie", request.where) = {} /\ "a2" \notin data

(***************************************************************************)
(* C5: for a non-empty inner predicate P the NONE and the NOT list         *)
(* predicate both compile to NOT EXISTS(match WHERE P), the negation of    *)
(* what SOME compiles to, and return exactly the parents SOME rejects.     *)
(***************************************************************************)
C5_NoneNegatesSome ==
    /\ (Ran({"relationship", "connection"}, {"NONE", "NOT"}) /\ Constrained) =>
            /\ cypher = Not(Exists(Match(FilmPattern, InnerOf(request.where))))
            /\ cypher = Not(TranslateWhere([request EXCEPT !.operator = "SOME"]))
            /\ data = {this \in Parents : Matching(this, "Movie", request.where) = {}}
            /\ data = Parents \ ResultUnder("SOME")
            /\ data = ResultUnder("NONE") /\ data = ResultUnder("NOT")
    /\ Ran({"union"}, {"NONE"}) =>
            /\ data = {this \in Parents :
                        \A w \in request.where : Matching(this, w.type, w.where) = {}}
            /\ data = Parents \ ResultUnder("SOME")

C5_Witness ==
    /\ Ran({"relationship"}, {"NOT"}) /\ Constrained
    /\ Related("a", "Movie") # {} /\ "a" \in data
    /\ Matching("a2", "Movie", request.where) # {} /\ "a2" \notin data

(***************************************************************************)
(* C6: a null relationship filter compiles to an existence check alone:    *)
(* NOT EXISTS(pattern) without isNot, returning the parents with no        *)
(* related entity; EXISTS(pattern) with isNot, returning those with one.   *)
(***************************************************************************)
C6_NullIsExistenceCheck ==
    (pc = "done" /\ request.kind = "relationship" /\ request.isNull) =>
        IF request.operator = "NOT"
        THEN /\ cypher = Exists(Match(FilmPattern, Undefined))
             /\ data = {this \in Parents : Related(this, "Movie") # {}}
        ELSE /\ cypher = Not(Exists(Match(FilmPattern, Undefined)))
             /\ data = {this \in Parents : Related(this, "Movie") = {}}

C6_Witness ==
    /\ pc = "done" /\ request.kind = "relationship" /\ request.isNull
    /\ request.operator = ""
    /\ Related("a", "Movie") = {} /\ Related("a", "Series") # {}
    /\ Related("a2", "Movie") # {}
    /\ data = {"a"}

(***************************************************************************)
(* C7: a SOME filter on an interface or union relationship compiles to one *)
(* EXISTS branch per concrete type, joined by OR: a parent is returned iff *)
(* a related entity of some filtered type satisfies that type's filter, a  *)
(* match on the second declared type counting like one on the first.       *)
(***************************************************************************)
BranchOf(typeName, where) ==
    Exists(Match([label |-> StoredLabel[typeName],
                  type |-> "ACTED_IN", direction |-> "OUT"], InnerOf(where)))

C7_SomeIsOrOfBranches ==
    /\ Ran({"interface"}, {"SOME"}) =>
            /\ cypher = [op |-> "OR", args |->
                    <<BranchOf("Movie", request.where), BranchOf("Series", request.where)>>]
            /\ data = {this \in Parents :
                        \E t \in TypeNames : Matching(this, t, request.where) # {}}
    /\ Ran({"union"}, {"SOME"}) =>
            /\ Cardinality(request.where) = 2 =>
                    cypher = [op |-> "OR", args |->
                        <<BranchOf("Movie",
                            (CHOOSE w \in request.where : w.type = "Movie").where),
                          BranchOf("Series",
                            (CHOOSE w \in request.where : w.type = "Series").where)>>]
            /\ data = {this \in Parents :
                        \E w \in request.where : Matching(this, w.type, w.where) # {}}

C7_Witness ==
    /\ Ran({"interface"}, {"SOME"})
    /\ Matching("a", "Movie", request.where) = {}
    /\ Matching("a", "Series", request.where) # {}
    /\ Related("a2", "Movie") # {}
    /\ data = {"a"}

AuthRan == authPc = "done"

OwnerRule == ValidateRules[1]

CreateOnlyRule == ValidateRules[3]

Declared(rules) == {rules[i] : i \in 1..Len(rules)}

Applicable(rules) == {rule \in Declared(rules) : "READ" \in rule.operations}

ConditionHolds(where, r) ==
    IF where.on = "node"
    THEN r[where.prop] =
            (IF where.value = "$jwt.id" THEN authRequest.jwt.id ELSE where.value)
    ELSE where.value \in authRequest.jwt[where.prop]

RulePasses(rule, r) ==
    /\ rule.requireAuthentication => authRequest.jwt.authenticated
    /\ ConditionHolds(rule.where, r)

ValidatePasses(r) ==
    \A rule \in Applicable(authorization.validate) : RulePasses(rule, r)

FilterKeeps(r) ==
    \/ Applicable(authorization.filter) = {}
    \/ \E rule \in Applicable(authorization.filter) : RulePasses(rule, r)

Visible(r) ==
    /\ \A c \in authRequest.where : r[c.prop] = c.value
    /\ FilterKeeps(r)

(***************************************************************************)
(* C9: with the validate rule { where: { node: { ownerId: "$jwt.id" } },  *)
(* operations: [READ] } and an authenticated token, the edge sub-query    *)
(* carries validatePredicate(NOT allowPredicate, "Forbidden"); the read   *)
(* fails with exactly the error "Forbidden" and returns nothing when a    *)
(* record it reaches has an ownerId different from the claim; with that   *)
(* rule alone it raises no error when every record's ownerId equals the   *)
(* claim, and it raises nothing but "Forbidden", and only if some record  *)
(* differs.  The same condition listed for CREATE only never fails a read.*)
(***************************************************************************)
C9_ValidateRaisesForbidden ==
    (AuthRan /\ authRequest.jwt.authenticated) =>
        /\ OwnerRule \in Declared(authorization.validate) =>
            /\ \E i \in 1..Len(Conjuncts(subquery.match.where)) :
                LET assertion == Conjuncts(subquery.match.where)[i]
                IN  /\ assertion.op = "validatePredicate"
                    /\ assertion.message = "Forbidden"
                    /\ assertion.arg.op = "NOT"
                    /\ authorization.validate = <<OwnerRule>> =>
                        assertion.arg.arg = Eq("node", "ownerId", authRequest.jwt.id)
            /\ (\E r \in records : Visible(r) /\ r.ownerId # authRequest.jwt.id) =>
                    response = Response(<<"Forbidden">>, {})
        /\ authorization.validate = <<OwnerRule>> =>
            /\ (\A r \in records : r.ownerId = authRequest.jwt.id) =>
                    response.errors = <<>>
            /\ response.errors # <<>> =>
                    /\ response.errors = <<"Forbidden">>
                    /\ \E r \in records : r.ownerId # authRequest.jwt.id
        /\ authorization.validate = <<CreateOnlyRule>> => response.errors = <<>>

\* claims { id: "u1" } against a record with ownerId "u2" next to one with
\* ownerId "u1": the read raised Forbidden
C9_Witness ==
    /\ AuthRan
    /\ authorization.validate = <<OwnerRule>>
    /\ authRequest.jwt.authenticated
    /\ authRequest.jwt.id = "u1"
    /\ \E r \in records : r.ownerId = "u2" /\ Visible(r)
    /\ \E r \in records : r.ownerId = "u1"
    /\ response = Response(<<"Forbidden">>, {})

(***************************************************************************)
(* C10: the rules of one kind that apply to the operation combine: a read *)
(* that raised no error returned exactly the records that satisfy the     *)
(* user's where and, when filter rules apply, at least one of them (OR),  *)
(* and every returned record passes every applicable validate rule (AND); *)
(* a reached record failing one applicable validate rule fails the read   *)
(* even if it passes another; an authenticated read whose records pass    *)
(* all applicable validate rules raises no error.                         *)
(***************************************************************************)
C10_ValidateAllFilterAny ==
    AuthRan =>
        /\ response.errors = <<>> =>
            /\ response.data = {r \in records : Visible(r)}
            /\ \A r \in response.data : ValidatePasses(r)
        /\ (\E r \in records : Visible(r) /\ ~ValidatePasses(r)) =>
                response.errors # <<>> /\ response.data = {}
        /\ (authRequest.jwt.authenticated /\ \A r \in records : ValidatePasses(r)) =>
                response.errors = <<>>

\* two validate rules and two filter rules apply; a returned record passes
\* both validate rules and only one of the filter rules, and another record
\* that passes no filter rule was left out
C10_Witness ==
    /\ AuthRan
    /\ Cardinality(Applicable(authorization.validate)) = 2
    /\ Cardinality(Applicable(authorization.filter)) = 2
    /\ response.errors = <<>>
    /\ \E r \in response.data :
        /\ ValidatePasses(r)
        /\ \E rule \in Applicable(authorization.filter) : ~RulePasses(rule, r)
    /\ \E r \in records \ response.data :
        /\ \A c \in authRequest.where : r[c.prop] = c.value
        /\ ~FilterKeeps(r)

(***************************************************************************)
(* C11: in the edge sub-query of a read the predicate of the filter rules *)
(* and the user's where predicate are separate conjuncts of the WHERE of  *)
(* one MATCH; a read that raised no error returned exactly the related    *)
(* nodes that satisfy both, and with no validate rule applying the read   *)
(* raises no error, whatever nodes the filter rules drop.                  *)
(***************************************************************************)
UserWhereHolds(r) == \A c \in authRequest.where : r[c.prop] = c.value

C11_FilterAndedWithWhere ==
    (AuthRan /\ ~IsThrow(subquery)) =>
        /\ subquery.match.where =
                And(<<createWherePredicate(authRequest.where),
                      createAuthPredicates("READ", authorization, authRequest.jwt, "where")>>
                    \o assertionConjunct(
                        createAuthPredicates("READ", authorization, authRequest.jwt, "allow")))
        /\ response.errors = <<>> =>
                response.data = {r \in records : UserWhereHolds(r) /\ FilterKeeps(r)}
        /\ Applicable(authorization.validate) = {} => response.errors = <<>>

\* no validate rule; a filter rule and a where: one node satisfies both and
\* is returned, one satisfies the where alone and is left out without error
C11_Witness ==
    /\ AuthRan
    /\ authorization.validate = <<>>
    /\ Applicable(authorization.filter) # {}
    /\ authRequest.where # {}
    /\ response.errors = <<>>
    /\ \E r \in response.data : UserWhereHolds(r) /\ FilterKeeps(r)
    /\ \E r \in records \ response.data : UserWhereHolds(r) /\ ~FilterKeeps(r)

(***************************************************************************)
(* C12, as claimed: whether a read fails with "Forbidden" does not depend *)
(* on the user's where or on the filter rules: it fails exactly when some *)
(* related node fails an applicable validate rule.                         *)
(***************************************************************************)
C12_ForbiddenWhateverTheFilter ==
    (AuthRan /\ authRequest.jwt.authenticated) =>
        (response.errors = <<"Forbidden">> <=>
            \E r \in records : ~ValidatePasses(r))

(***************************************************************************)
(* C12, amended: the assertion of the validate rules is one more conjunct *)
(* of the WHERE that carries the user's where and the filter rules.  A    *)
(* related node that those keep and that fails a validate rule fails the  *)
(* read with "Forbidden"; a failure is always due to a related node that  *)
(* fails a validate rule; a failed read returns no record.                 *)
(***************************************************************************)
C12_AssertionIsConjunctOfWhere ==
    (AuthRan /\ authRequest.jwt.authenticated) =>
        /\ Applicable(authorization.validate) # {} =>
            \E i \in 1..Len(Conjuncts(subquery.match.where)) :
                /\ IsAssertion(Conjuncts(subquery.match.where)[i])
                /\ \A j \in 1..Len(Conjuncts(subquery.match.where)) :
                        j # i => Narrows(Conjuncts(subquery.match.where)[j])
        /\ (\E r \in records : Visible(r) /\ ~ValidatePasses(r)) =>
                response.errors = <<"Forbidden">>
        /\ response.errors # <<>> =>
                /\ response.errors = <<"Forbidden">>
                /\ response.data = {}
                /\ \E r \in records : ~ValidatePasses(r)

\* the only node failing the validate rule is dropped by the user's where
\* and the read went through, returning the other node
C12_Witness ==
    /\ AuthRan
    /\ authRequest.jwt.authenticated
    /\ authorization.validate = <<OwnerRule>>
    /\ authRequest.where # {}
    /\ \E r \in records : ~ValidatePasses(r) /\ ~UserWhereHolds(r)
    /\ response.errors = <<>>
    /\ response.data # {}

(***************************************************************************)
(* Authentication of root fields.                                          *)
(***************************************************************************)
RootRan == rootField # Null

\* the field is under an @authentication that names one of its operations
Covered ==
    /\ typeDefs.level \in AuthenticationLevels
    /\ \/ rootField = "Query.me" /\ "READ" \in typeDefs.operations
       \/ rootField = "Mutation.updateMe" /\ typeDefs.operations \cap {"CREATE", "UPDATE"} # {}

ValidToken == contextValue \in {createBearerToken(secret, u) : u \in UserIds}

\* C13: a request for a root Query or Mutation field that @authentication
\* covers, on the field, on its type or on the schema, ends with exactly one
\* error "Unauthenticated" and without the resolver's result when it carries
\* no valid token, and without any error when it carries one.
C13_UnauthenticatedOnCoveredRoot ==
    (RootRan /\ Covered) =>
        IF ValidToken
        THEN gqlResult.errors = <<>>
        ELSE /\ gqlResult.errors = <<"Unauthenticated">>
             /\ gqlResult.data = Null

C13_Witness ==
    /\ RootRan
    /\ Covered
    /\ typeDefs.level = "schema"
    /\ contextValue \in {createBearerToken("forged", u) : u \in UserIds}
    /\ gqlResult.errors = <<"Unauthenticated">>

(***************************************************************************)
(* @populatedBy.                                                           *)
(***************************************************************************)
\* the step is an update operation of the mutation document
UpdateRan ==
    /\ Len(results') = Len(results) + 1
    /\ results'[Len(results')].operation = "UPDATE"

Updated == results'[Len(results')].id

\* what the stored property has to be after an update that invoked the callback
PopulatedValue(before) ==
    CASE populatedBy.callback = "null" -> Null
      [] populatedBy.callback = "undefined" -> before
      [] OTHER -> IF counter' = 1 THEN string1 ELSE string2

\* C14: an UPDATE of a stored record whose field is bound to an UPDATE callback
\* removes the property when the callback returned null, leaves it at its
\* value when the callback returned undefined and sets it to the returned
\* value otherwise; it changes no other stored property and no other record.
C14_UpdateCallbackOutcome ==
    [][(UpdateRan /\ "UPDATE" \in populatedBy.operations) =>
        \E before \in entities :
            /\ before.id = Updated
            /\ entities' = (entities \ {before}) \cup
                    {[before EXCEPT !.callback = PopulatedValue(before.callback)]}]_vars

C14_Witness ==
    /\ populatedBy.callback = "undefined"
    /\ "UPDATE" \in populatedBy.operations
    /\ Len(results) = 1
    /\ results[1].operation = "UPDATE"
    /\ results[1].callback = seeded
    /\ \E e \in entities : e.id = results[1].id /\ e.callback = seeded

\* the operations of the document, up to the i-th, that the directive lists
Listed(i) == {j \in 1..i : results[j].operation \in populatedBy.operations}

WhereShape(where) ==
    {IF "type" \in DOMAIN w
     THEN [where |-> {[on |-> c.on, prop |-> c.prop] : c \in w.where}, type |-> w.type]
     ELSE [on |-> w.on, prop |-> w.prop] : w \in where}

\* the request without the literals of its filter
Shape(req) == [req EXCEPT !.where = WhereShape(req.where)]

\* the literals of the filter of a request, one for each place they stand in
\* the query that is sent: an interface filter stands for every implementation
Occurrences(req) ==
    CASE req.kind = "union" -> Cardinality(req.where)
      [] req.kind = "interface" -> Len(ProductionTypes) * Cardinality(req.where)
      [] OTHER -> Cardinality(req.where)

References(pieces) == {pieces[i].text : i \in {j \in DOMAIN pieces : pieces[j].kind = "param"}}

C17_ParamsDistinctAndReferenced ==
    \A i \in DOMAIN translations :
        /\ Cardinality(DOMAIN translations[i].params) = Occurrences(translations[i].request)
        /\ References(translations[i].cypher) = DOMAIN translations[i].params

C17_Witness ==
    \E i \in DOMAIN translations :
        /\ translations[i].request.kind = "interface"
        /\ DOMAIN translations[i].params = {"param0", "param1"}
        /\ translations[i].params["param0"] = translations[i].params["param1"]
        /\ References(translations[i].cypher) = {"param0", "param1"}

(***************************************************************************)
(* Labels.                                                                 *)
(***************************************************************************)
PatternLabels(p) == {Nodes(p)[i] : i \in DOMAIN Nodes(p)}

Translated == pc = "done"

\* the filter of the request reaches nodes of type Movie
ReferencesMovie ==
    /\ Translated
    /\ IsDefined(cypher)
    /\ request.kind = "union" => \E w \in request.where : w.type = "Movie"

\* C18: Movie is declared with @node(labels: ["Film"]): every pattern that
\* reaches Movie nodes, in a relationship filter as in the sub-query of a
\* connection field, carries the label Film and none carries Movie, while
\* __resolveType is still Movie.
C18_CustomLabelInEveryPattern ==
    /\ Translated => "Movie" \notin PatternLabels(cypher)
    /\ ReferencesMovie => "Film" \in PatternLabels(cypher)
    /\ (AuthRan /\ ~IsThrow(subquery)) =>
            /\ subquery.match.pattern.label = "Film"
            /\ subquery.return.resolveType = "Movie"
            /\ subquery.return.variable = "this_Movie"

C18_Witness ==
    /\ ReferencesMovie
    /\ request.kind = "interface"
    /\ PatternLabels(cypher) = {"Film", "Series"}
    /\ AuthRan
    /\ subquery.match.pattern.label = "Film"
    /\ subquery.return.resolveType = "Movie"

(***************************************************************************)
(* Projection and aggregation.                                             *)
(***************************************************************************)
Selected == selection # NoSelection

\* the key a field has in the response
ResponseKey == IF selection.alias # Null THEN selection.alias ELSE selection.node.name

StoredTitles(rows) == {e.to[selection.node.databaseName] : e \in rows}

StoredTimes(rows) == {e[selection.edge.databaseName] : e \in rows}

\* C19: a field with @alias reads the stored property and is keyed by the name
\* the schema exposes, in the projection of the related nodes as in the
\* aggregation of node and relationship attributes.
C19_AliasReadsStoredProperty ==
    Selected =>
        \A this \in Parents :
            /\ projected[this] =
                    {[value |-> t, key |-> ResponseKey] :
                        t \in StoredTitles(Related(this, "Movie"))}
            /\ \A r \in aggregate[this] :
                    /\ r.node.name = selection.node.name
                    /\ r.edge.name = selection.edge.name
                    /\ r.count > 0 =>
                            /\ r.node.shortest \in StoredTitles(Related(this, "Movie"))
                            /\ r.edge.max \in StoredTimes(Related(this, "Movie"))

C19_Witness ==
    /\ Selected
    /\ selection.node = Attribute("myTitle", "title")
    /\ selection.alias = Null
    /\ \E e \in Related("a", "Movie") : e.to.title = "T1"
    /\ projected["a"] = {[value |-> Null, key |-> "myTitle"]}
    /\ \E r \in aggregate["a"] : r.node.name = "myTitle" /\ r.node.shortest = "T1"

\* C20: the aggregate field of a parent ranges over that parent's related
\* nodes that satisfy the where argument and over the relationships that lead
\* to them, whatever the other parents have: count, the least and greatest
\* relationship value and the shortest and longest node value are those of
\* that one set.
C20_AggregateOverFilteredSet ==
    Selected =>
        \A this \in Parents :
            \A r \in aggregate[this] :
                LET rows == Matching(this, "Movie", selection.where)
                IN  /\ r.count = Cardinality(rows)
                    /\ rows = {} =>
                            /\ r.node.shortest = Null
                            /\ r.node.longest = Null
                    /\ rows # {} =>
                            /\ r.edge.min \in StoredTimes(rows)
                            /\ r.edge.max \in StoredTimes(rows)
                            /\ \A v \in StoredTimes(rows) : r.edge.min <= v /\ v <= r.edge.max
                            /\ r.node.shortest \in StoredTitles(rows)
                            /\ r.node.longest \in StoredTitles(rows)
                            /\ \A v \in StoredTitles(rows) :
                                    /\ Len(r.node.shortest) <= Len(v)
                                    /\ Len(v) <= Len(r.node.longest)

C20_Witness ==
    /\ Selected
    /\ selection.where # {}
    /\ Cardinality(Related("a", "Movie")) = 2
    /\ \E r \in aggregate["a"] : r.count = 1 /\ r.edge.min = 20
    /\ \E r \in aggregate["a2"] : r.count = 1 /\ r.edge.max = 10

(***************************************************************************)
(* C21: compiling a relationship filter terminates for every finite        *)
(* filter tree over a cyclic type graph: every call of createWherePredicate *)
(* that createRelationshipOperation makes is given a strictly smaller      *)
(* sub-tree of the input of the call that made it, and a compilation that  *)
(* has started comes to its end.                                           *)
(***************************************************************************)
RECURSIVE Size(_)
Size(whereInput) ==
    IF whereInput = {} THEN 1
    ELSE LET e == CHOOSE e \in whereInput : TRUE
         IN  Size(e.value) + Size(whereInput \ {e})

\* the calls a step of the compilation has added in front of the others
CallsMade == SubSeq(whereCalls', 1, Len(whereCalls') - Len(whereCalls) + 1)

ConsumesSmallerSubTree ==
    compilePc = "compiling" =>
        \A i \in 1..Len(CallsMade) :
            Size(CallsMade[i].whereInput) < Size(Head(whereCalls).whereInput)

C21_CompilationTerminates ==
    /\ [][ConsumesSmallerSubTree]_vars
    /\ (compilePc = "compiling") ~> (compilePc = "done")

\* Tenant.admins -> User.adminAccess -> Tenant has been compiled
C21_Witness ==
    /\ compilePc = "done"
    /\ whereCalls = <<>>
    /\ whereArgument =
            whereCall("Tenant",
                {WhereEntry("admins",
                    {WhereEntry("adminAccess", {WhereEntry("id", {})})})})

(***************************************************************************)
(* C22: whatever calls of getSchema, getExecutableSchema and               *)
(* getSubgraphSchema are made on one instance, and however they            *)
(* interleave, the subscriptions engine's init is invoked at most once:    *)
(* the promise subscriptionMechanismSetup stored on its first call is the  *)
(* one every later call returns, so it is never replaced, only settled.    *)
(***************************************************************************)
Called(c, methods) == callers[c].method \in methods

Returned(c) == callers[c].position = "done" /\ callers[c].result.state = "fulfilled"

InitPromiseKept ==
    IsSet(instance.subscriptionInit) =>
        \/ instance'.subscriptionInit = instance.subscriptionInit
        \/ /\ instance.subscriptionInit.state = "pending"
           /\ Settled(instance'.subscriptionInit)
           /\ callers' = callers

C22_InitInvokedAtMostOnce ==
    [][engineInits' <= 1 /\ InitPromiseKept]_vars

C22_Witness ==
    /\ instance.subscriptions = "init"
    /\ engineInits = 1
    /\ instance.subscriptionInit.state = "fulfilled"
    /\ \E c, d, e \in 1..MaxCallers :
            /\ Called(c, {"getSchema"}) /\ Returned(c)
            /\ Called(d, {"getExecutableSchema"}) /\ Returned(d)
            /\ Called(e, {"getSubgraphSchema"}) /\ Returned(e)

(***************************************************************************)
(* C23: on one instance the executable schema is generated at most once,   *)
(* every call of getSchema that returns gives what the one stored promise  *)
(* gives, and the schema model is built at most once: once set it is never *)
(* replaced, also when getSubgraphSchema follows getSchema.                *)
(***************************************************************************)
SchemaModelKept ==
    instance.schemaModel # Null => instance'.schemaModel = instance.schemaModel

SamePromise ==
    \A c \in 1..MaxCallers :
        (Called(c, {"getSchema", "getExecutableSchema"}) /\ Returned(c))' =>
            callers'[c].result = instance'.executableSchema

C23_SchemaAndModelBuiltOnce ==
    [][/\ schemasGenerated'.executableSchema <= 1
       /\ modelsBuilt' <= 1
       /\ SamePromise
       /\ SchemaModelKept]_vars

C23_Witness ==
    /\ modelsBuilt = 1
    /\ instance.schemaModel = "model1"
    /\ instance.subgraphSchema.state = "fulfilled"
    /\ \E c, d, e \in 1..MaxCallers :
            /\ c # d
            /\ Called(c, {"getSchema"}) /\ Returned(c)
            /\ Called(d, {"getSchema"}) /\ Returned(d)
            /\ callers[c].result = callers[d].result
            /\ Called(e, {"getSubgraphSchema"}) /\ Returned(e)

(***************************************************************************)
(* C24: assertIndexesAndConstraints on an instance on which no schema      *)
(* getter has been called rejects with the message that getSchema must be  *)
(* awaited first, and leaves dbInfo, every other field and the database    *)
(* alone; called after a schema was generated, with no driver in the       *)
(* argument and none from the constructor, it rejects with "neo4j-driver   *)
(* Driver missing" and the database is not queried.                        *)
(***************************************************************************)
Asserts(c) ==
    /\ callers[c].position = "idle"
    /\ callers'[c].method = "assertIndexesAndConstraints"

RejectsBeforeSchema(c) ==
    (Asserts(c) /\ ~IsSet(instance.executableSchema) /\ ~IsSet(instance.subgraphSchema)) =>
        /\ callers'[c].position = "done"
        /\ callers'[c].result = Promise("rejected", SCHEMA_MISSING_ERROR)
        /\ instance' = instance
        /\ dbQueries' = dbQueries

AfterSchema(c) ==
    /\ callers[c].method = "assertIndexesAndConstraints"
    /\ callers[c].position = "awaitSchema"
    /\ callers'[c] # callers[c]
    /\ instance[callers[c].awaits].state = "fulfilled"

RejectsWithoutDriver(c) ==
    (AfterSchema(c) /\ callers[c].driver = Null /\ instance.driver = Null) =>
        /\ callers'[c].position = "done"
        /\ callers'[c].result = Promise("rejected", DRIVER_MISSING_ERROR)
        /\ instance' = instance
        /\ dbQueries' = dbQueries

C24_AssertRejectsEarly ==
    [][\A c \in 1..MaxCallers : RejectsBeforeSchema(c) /\ RejectsWithoutDriver(c)]_vars

C24_Witness ==
    /\ instance.driver = Null
    /\ instance.dbInfo = Null
    /\ dbQueries = 0
    /\ \E c, d, e \in 1..MaxCallers :
            /\ Called(c, {"assertIndexesAndConstraints"})
            /\ callers[c].position = "done"
            /\ callers[c].result = Promise("rejected", SCHEMA_MISSING_ERROR)
            /\ Called(d, {"getSchema"}) /\ Returned(d)
            /\ Called(e, {"assertIndexesAndConstraints"})
            /\ callers[e].position = "done"
            /\ callers[e].result = Promise("rejected", DRIVER_MISSING_ERROR)

(***************************************************************************)
(* C27: no call of a schema getter on an instance whose subscriptions      *)
(* engine has an init returns a schema before that init has completed:     *)
(* not the first call, not a call made while the first is awaiting         *)
(* subscriptionMechanismSetup, not a call made after init has rejected.    *)
(***************************************************************************)
C27_NoSchemaBeforeInit ==
    instance.subscriptions = "init" =>
        \A c \in 1..MaxCallers :
            (Called(c, Getters) /\ Returned(c)) =>
                instance.subscriptionInit.state = "fulfilled"

\* the first call is still awaiting the init, the second has its schema
C27_Witness ==
    /\ instance.subscriptions = "init"
    /\ instance.subscriptionInit.state = "pending"
    /\ engineInits = 1
    /\ \E c, d \in 1..MaxCallers :
            /\ Called(c, {"getSchema"})
            /\ callers[c].position = "awaitSubscriptionInit"
            /\ Called(d, {"getSchema"}) /\ Returned(d)

(***************************************************************************)
(* C25: createConnectOrCreateAndParams over a list of n items gives the n  *)
(* sub-queries joined in the order of the input, and a parameter map that  *)
(* holds every parameter of every item with the value that item gave it:   *)
(* no entry of one item is overwritten by, or lost to, an entry of another *)
(* item, because the names of item i begin with varName followed by i.     *)
(***************************************************************************)
Connected == connectOrCreate.varName # ""

ItemStatement(i) ==
    createConnectOrCreateSubQuery(
        connectOrCreate.input[i],
        connectOrCreate.varName \o ToString(i - 1),
        connectOrCreate.parentVar)

\* the entries an item gives for its where, its node and its relationship
ItemEntries(i) ==
    LET item == connectOrCreate.input[i]
        pre == connectOrCreate.varName \o ToString(i - 1)
    IN  {CypherParam(pre \o "_" \o q.key, q.value) : q \in item.where}
        \cup {CypherParam(pre \o "_on_create_" \o q.key, q.value) : q \in item.node}
        \cup {CypherParam(pre \o "_relationship_on_create_" \o q.key, q.value) :
                    q \in item.edge}

C25_EveryItemKeepsItsParams ==
    Connected =>
        LET n == Len(connectOrCreate.input)
        IN  /\ connected.query = join([i \in 1..n |-> ItemStatement(i).query])
            /\ connected.params = UNION {ItemEntries(i) : i \in 1..n}
            /\ \A e, f \in connected.params : e.name = f.name => e = f

\* two items that differ in every value
C25_Witness ==
    /\ Connected
    /\ Len(connectOrCreate.input) = 2
    /\ connectOrCreate.input[1] =
            CreateOrConnectInput({Property("isan", "i1")}, {Property("title", "T1")},
                                 {Property("screentime", "10")})
    /\ connectOrCreate.input[2] =
            CreateOrConnectInput({Property("isan", "i2")}, {Property("title", "T2")}, {})
    /\ Cardinality(connected.params) = 5

(***************************************************************************)
(* TestHelper: the lock.                                                   *)
(***************************************************************************)
OpenHelpers == {h \in 1..MaxHelpers : helpers[h].open}

\* helper h is idle and the step is a call of the method on it
Starts(h, method) ==
    /\ helpers[h].position = "idle"
    /\ helpers'[h] # helpers[h]
    /\ helpers'[h].method = method

\* the step ends a call of the method on helper h that was at an await
Ends(h, method) ==
    /\ helpers[h].method = method
    /\ helpers[h].position # "idle"
    /\ helpers'[h].position = "idle"

ThrowsStillOpen(h) ==
    /\ helpers'[h] = Thrown(helpers[h], "initNeo4jGraphQL", STILL_OPEN_ERROR)
    /\ helperLock'

ThrowsUnopened(h) ==
    /\ helpers'[h] = Thrown(helpers[h], "close", UNOPENED_ERROR)
    /\ ~helperLock'

LockSteps(h) ==
    /\ Starts(h, "initNeo4jGraphQL") /\ helperLock => ThrowsStillOpen(h)
    /\ Starts(h, "initNeo4jGraphQL") /\ ~helperLock => helperLock'
    /\ Starts(h, "close") /\ ~helperLock => ThrowsUnopened(h)
    /\ Starts(h, "close") /\ helperLock =>
            helperLock' /\ helpers'[h].position = "awaitDriver"
    /\ Ends(h, "close") /\ helpers'[h].result.state = "fulfilled" => ~helperLock'

C28_ThrowingInitLeavesLock ==
    [][\A h \in 1..MaxHelpers :
            /\ Starts(h, "initNeo4jGraphQL")
                    /\ helpers'[h].result = Promise("rejected", ALREADY_INITIALIZED_ERROR)
                    => helperLock' = helperLock
            /\ Ends(h, "initNeo4jGraphQL")
                    /\ helpers'[h].result = Promise("rejected", CONNECT_ERROR)
                    => ~helperLock']_vars

\* helper 1 was initialised and closed, its second initNeo4jGraphQL threw,
\* and after it a fresh helper is refused although no helper is open
C28_Witness ==
    /\ ~strayClose
    /\ OpenHelpers = {}
    /\ helpers[1].result = Promise("rejected", ALREADY_INITIALIZED_ERROR)
    /\ helpers[2] = Thrown(NewTestHelper, "initNeo4jGraphQL", STILL_OPEN_ERROR)

(***************************************************************************)
(* SOME on a relationship field that is not a list.                        *)
(***************************************************************************)
\* what the same filter returns on the list field of the same relationship
OnListField(operator) ==
    Execute(createRelationshipOperation(
                moviesField, "Movie", operator,
                [where |-> request.where, isNull |-> FALSE], operator = "NOT"))

\* C29 (as claimed): SOME on a field that is not a list passes a parent iff
\* exactly one related node satisfies the inner predicate.
C29_SomeCountsNodes ==
    (Ran({"toOne"}, {"", "SOME"}) /\ Constrained) =>
        \A this \in Parents :
            this \in data <=>
                Cardinality({e.to : e \in Matching(this, "Movie", request.where)}) = 1

\* C29 (amended): SOME on a field that is not a list is compiled as SINGLE:
\* a parent passes iff exactly one of its relationships leads to a related
\* node satisfying the inner predicate, so a parent with two or more matching
\* relationships does not pass although SOME on a list field accepts it; ALL,
\* NONE and NOT compile to what they compile to on a list field.
C29_SomeOnToOneIsSingle ==
    /\ (Ran({"toOne"}, {"", "SOME"}) /\ Constrained) =>
            /\ cypher = singlePredicate(relationshipPattern(movieField, "Movie"),
                                        InnerOf(request.where), FALSE)
            /\ data = OnListField("SINGLE")
            /\ \A this \in Parents :
                    /\ this \in data <=>
                            Cardinality(Matching(this, "Movie", request.where)) = 1
                    /\ Cardinality(Matching(this, "Movie", request.where)) >= 2 =>
                            this \notin data /\ this \in OnListField("SOME")
    /\ Ran({"toOne"}, {"ALL", "NONE", "NOT", "SINGLE"}) =>
            /\ cypher = createRelationshipOperation(
                            moviesField, "Movie", request.operator,
                            [where |-> request.where, isNull |-> FALSE],
                            request.operator = "NOT")
            /\ data = OnListField(request.operator)

\* parent a has two matching movies and is rejected, parent a2 has one
C29_Witness ==
    /\ Ran({"toOne"}, {"SOME"}) /\ Constrained
    /\ Cardinality({e.to : e \in Matching("a", "Movie", request.where)}) = 2
    /\ "a" \notin data /\ "a" \in OnListField("SOME")
    /\ Cardinality(Matching("a2", "Movie", request.where)) = 1
    /\ "a2" \in data

(***************************************************************************)
(* The two forms of SINGLE.                                                *)
(***************************************************************************)
SingleOf(whereInput, edgePredicate) ==
    Execute(createConnectionOperation(
                moviesField, "Movie", "SINGLE", whereInput, edgePredicate))

\* C30: on every graph (every state before the query runs has one) and for
\* every inner predicate on node properties the
\* size() form of SINGLE (edgePredicate set) and the single() form
\* (edgePredicate unset) hold of the same parents, also of a parent with
\* several relationships to one node and of a parent with none.
C30_SingleFormsAgree ==
    /\ pc = "seed" => \A w \in NodeWheres : SingleOf(w, TRUE) = SingleOf(w, FALSE)
    /\ (Ran({"connection"}, {"SINGLE"}) /\ request.where \in NodeWheres) =>
            /\ data = SingleOf(request.where, ~request.edgePredicate)
            /\ \A this \in Parents :
                    this \in data <=>
                        Cardinality(Matching(this, "Movie", request.where)) = 1

\* the size() form ran: parent a has two relationships to the one matching
\* movie and is rejected, parent a2 has no relationship and is rejected
C30_Witness ==
    /\ Ran({"connection"}, {"SINGLE"}) /\ request.edgePredicate
    /\ request.where \in NodeWheres \ {{}}
    /\ Cardinality(Matching("a", "Movie", request.where)) = 2
    /\ Cardinality({e.to : e \in Matching("a", "Movie", request.where)}) = 1
    /\ Related("a2", "Movie") = {}
    /\ data = {}
    /\ SingleOf(request.where, FALSE) = {}

=============================================================================
